---- MODULE Spec2Model ----
(***************************************************************************)
(* State-machine model of the asset-auditor collectors.                    *)
(*                                                                         *)
(* One invocation of a resolver or check is modelled as a sequence of      *)
(* steps, one per external command it launches.  The outcome of every      *)
(* external process is chosen by the environment.                          *)
(*                                                                         *)
(* Text (stdout / stderr) is a flat sequence of tokens; the token NL is a  *)
(* line break (the only whitespace that is kept as a token, the blanks     *)
(* between two tokens of a line are implicit).  Python's None is the       *)
(* string "None"; Optional[int] values are <<>> (None) or <<n>>, and an    *)
(* Optional[str] whose text may hold several tokens is Nothing or          *)
(* Some(text).  score_factor is kept in tenths (0.6 is 6).                 *)
(*                                                                         *)
(* write_json_report is modelled step by step on the file system: the      *)
(* parent directory of the path and the content of the file at the path.   *)
(***************************************************************************)
EXTENDS Integers, Sequences, FiniteSets, TLC

VARIABLES
    fn,       \* the function being invoked ("idle" before the invocation)
    pc,       \* the position of the invocation inside the function
    calls,    \* the run_cmd calls made so far: command, process outcome, what run_cmd did
    lv,       \* the local variables the function keeps between two commands
    result,   \* the value returned (NoResult until the function returns)
    raised,   \* the exception that ended the invocation (None if none)
    fs        \* the file system at the path of the report: its parent directory, the file

vars == <<fn, pc, calls, lv, result, raised, fs>>

----------------------------------------------------------------------------
(* Bounds of the model *)

\* longest raw stdout of `ip route show default`, in tokens
MaxIpLen == 6
\* longest raw stdout of `netstat -rn`, in tokens
MaxNetstatLen == 4
\* most filler columns between the gateway and the interface of a route row
MaxFill == 5
\* longest unstructured raw stdout of `route -n`, in tokens
MaxRouteLen == 2
\* longest raw stdout of `socketfilterfw --getglobalstate`, in phrases
MaxStateLen == 2
\* longest raw stdout of `socketfilterfw --getstealthmode`, in phrases
MaxStealthLen == 2
\* longest raw stdout of `socketfilterfw --getblockall`, in phrases
MaxBlockAllLen == 1
\* longest raw stdout of `fdesetup status`, in phrases
MaxFdeLen == 3
\* longest raw stdout of `resolvectl status`, in lines
MaxResolvectlLines == 2
\* longest /etc/resolv.conf, in lines
MaxResolvConfLines == 2
\* longest /etc/environment, in lines
MaxEtcEnvironmentLines == 2
\* longest raw stdout of `route -n get default`, in lines
MaxMacRouteLines == 3
\* longest raw stdout of `scutil --dns`, in lines
MaxScutilDnsLines == 2
\* longest raw stdout of `scutil --proxy`, in lines
MaxScutilProxyLines == 3
\* most sockets psutil.net_connections gives
MaxConns == 3
\* most pieces json.dump writes a report in
MaxPieces == 3

----------------------------------------------------------------------------
(* Values *)

None == "None"
NoResult == [returned |-> FALSE]
NoLocals == [empty |-> TRUE]
NL == "\n"
\* a blank, in the texts that keep their blanks (environment values, the
\* lines of /etc/environment)
SP == " "

\* Optional[str]: None, or a str
Nothing == <<>>
Some(t) == <<t>>

\* Python truthiness of an Optional[str]: None and "" are falsy
TruthyOpt(o) == o # Nothing /\ o[1] # <<>>

Range(s) == {s[i] : i \in DOMAIN s}

RECURSIVE SeqsUpTo(_, _)
SeqsUpTo(S, n) ==
    IF n = 0 THEN {<<>>}
    ELSE LET P == SeqsUpTo(S, n - 1)
         IN  P \cup {Append(s, x) : s \in {q \in P : Len(q) = n - 1}, x \in S}

\* Python truthiness of a str: the empty string is falsy
Truthy(t) == t # <<>>

\* Python `a or b` on two strings
Or(a, b) == IF Truthy(a) THEN a ELSE b

----------------------------------------------------------------------------
(* str methods *)

IsSpace(tok) == tok \in {NL, SP}

RECURSIVE LStrip(_)
LStrip(t) == IF t # <<>> /\ IsSpace(Head(t)) THEN LStrip(Tail(t)) ELSE t

RECURSIVE RStrip(_)
RStrip(t) ==
    IF t # <<>> /\ IsSpace(t[Len(t)]) THEN RStrip(SubSeq(t, 1, Len(t) - 1)) ELSE t

\* str.strip(): leading and trailing whitespace removed
Strip(t) == RStrip(LStrip(t))

\* str.splitlines() followed, per line, by line.strip().split(): the token
\* lists of the lines, blank lines being <<>>
RECURSIVE SplitLines(_)
SplitLines(t) ==
    IF t = <<>> THEN <<>>
    ELSE IF \E i \in DOMAIN t : t[i] = NL
         THEN LET i == CHOOSE k \in DOMAIN t : t[k] = NL /\ \A j \in 1..(k - 1) : t[j] # NL
              IN  <<SubSeq(t, 1, i - 1)>> \o SplitLines(SubSeq(t, i + 1, Len(t)))
         ELSE <<t>>

\* str.lower() of one token
LowerTok(tok) ==
    CASE tok = "Destination" -> "destination"
      [] tok = "Kernel" -> "kernel"
      [] tok = "Default" -> "default"
      [] tok = "DEFAULT" -> "default"
      [] tok = "FileVault is On" -> "filevault is on"
      [] tok = "FileVault is Off" -> "filevault is off"
      [] tok = "Enabled" -> "enabled"
      [] tok = "Disabled" -> "disabled"
      [] OTHER -> tok

\* str.lower()
Lower(t) == [i \in DOMAIN t |-> LowerTok(t[i])]

\* `phrase in text`
Contains(t, phrase) == phrase \in Range(t)

\* repr() of a str, as the !r conversion of an f-string gives it: the text
\* between quotes, a line break written as the two characters \n
EscapeTok(tok) == IF tok = NL THEN "\\n" ELSE tok

\* only the first line of the text quoted
ReprFirstLine(t) ==
    LET n == IF NL \in Range(t) THEN (CHOOSE k \in DOMAIN t : t[k] = NL /\ \A j \in 1..(k - 1) : t[j] # NL) - 1
             ELSE Len(t)
    IN  <<"'">> \o SubSeq(t, 1, n) \o <<"'">>

\* repr(): quote, escaped text, quote
Repr(t) == <<"'">> \o [i \in DOMAIN t |-> EscapeTok(t[i])] \o <<"'">>

\* list.index(w): the first position of w (1-based here)
Index(tokens, w) ==
    CHOOSE i \in DOMAIN tokens : tokens[i] = w /\ \A j \in 1..(i - 1) : tokens[j] # w

----------------------------------------------------------------------------
(* helpers/unix.py *)

ExcOf(kind) ==
    CASE kind = "timeout" -> "TimeoutExpired"
      [] kind = "missing" -> "FileNotFoundError"
      [] kind = "noexec" -> "PermissionError"

\* subprocess.run(cmd, text=True, capture_output=True, timeout=timeout_s):
\* returns the completed process, or raises when the process does not end in
\* time or cannot be started; run_cmd has no handler around it.
run_cmd(cmd, proc) ==
    IF proc.kind = "exit"
    THEN [type |-> "return", rc |-> proc.rc,
          stdout |-> Strip(proc.out), stderr |-> Strip(proc.err)]
    ELSE [type |-> "raise", exc |-> ExcOf(proc.kind)]

get_evidence(cmd, rc, stdout, stderr) ==
    [cmd |-> cmd, rc |-> rc, stdout |-> stdout, stderr |-> stderr]

----------------------------------------------------------------------------
(* The environment: what an external process can do *)

Exit(rc, out, err) == [kind |-> "exit", rc |-> rc, out |-> out, err |-> err]
NoStart(kind) == [kind |-> kind, rc |-> 0, out |-> <<>>, err |-> <<>>]

\* the process did not end in time, the binary is missing, or is not executable
Aborted == {NoStart(k) : k \in {"timeout", "missing", "noexec"}}

\* a process that exits non-zero: little or no stdout, perhaps a message on stderr
Failing(tag) ==
    {Exit(rc, out, err) : rc \in {1, 127}, out \in {<<>>, <<tag, "usage">>},
                          err \in {<<>>, <<tag, "failed">>}}

\* a process that exits 0 with `out` on stdout
Succeeding(outs) == {Exit(0, out, <<>>) : out \in outs}

----------------------------------------------------------------------------
(* collectors/linux/linux_network.py: get_linux_default_route *)

CMD_IP == <<"ip", "route", "show", "default">>
CMD_ROUTE == <<"route", "-n">>
CMD_NETSTAT == <<"netstat", "-rn">>

IpToks == {"via", "dev", "10.0.0.1", "eth0", NL}
IpOuts == SeqsUpTo(IpToks, MaxIpLen)


\* the keyword matched at its last occurrence in the line instead of its first
LastIndex(tokens, w) ==
    CHOOSE i \in DOMAIN tokens : tokens[i] = w /\ \A j \in (i + 1)..Len(tokens) : tokens[j] # w

IpLineLastKeyword(tokens, gateway, iface) ==
    LET g == IF "via" \in Range(tokens) /\ LastIndex(tokens, "via") + 1 <= Len(tokens)
             THEN tokens[LastIndex(tokens, "via") + 1] ELSE gateway
        d == IF "dev" \in Range(tokens) /\ LastIndex(tokens, "dev") + 1 <= Len(tokens)
             THEN tokens[LastIndex(tokens, "dev") + 1] ELSE iface
    IN  <<g, d>>

\* one line of `ip route show default`: the token after the first "via" and
\* the token after the first "dev", when there is one
IpLine(tokens, gateway, iface) ==
    LET g == IF "via" \in Range(tokens) /\ Index(tokens, "via") + 1 <= Len(tokens)
             THEN tokens[Index(tokens, "via") + 1] ELSE gateway
        d == IF "dev" \in Range(tokens) /\ Index(tokens, "dev") + 1 <= Len(tokens)
             THEN tokens[Index(tokens, "dev") + 1] ELSE iface
    IN  <<g, d>>

\* the loop going on to later lines until both values are found
RECURSIVE IpScanUntilBoth(_, _, _, _)
IpScanUntilBoth(lines, k, gateway, iface) ==
    IF k > Len(lines) THEN <<gateway, iface>>
    ELSE IF lines[k] = <<>> THEN IpScanUntilBoth(lines, k + 1, gateway, iface)
    ELSE LET r == IpLine(lines[k], gateway, iface)
         IN  IF r[1] # None /\ r[2] # None THEN r
             ELSE IpScanUntilBoth(lines, k + 1, r[1], r[2])

\* the loop over stdout.splitlines(), from line k on
RECURSIVE IpScan(_, _, _, _)
IpScan(lines, k, gateway, iface) ==
    IF k > Len(lines) THEN <<gateway, iface>>
    ELSE IF lines[k] = <<>> THEN IpScan(lines, k + 1, gateway, iface)
    ELSE LET r == IpLine(lines[k], gateway, iface)
         IN  IF r[1] # None \/ r[2] # None THEN r
             ELSE IpScan(lines, k + 1, r[1], r[2])

ParseIpRoute(stdout) == IpScan(SplitLines(stdout), 1, None, None)


\* a probe taken as successful on its exit code alone
ProbeOkExitCodeOnly(rc, stdout) == rc = 0

\* a probe taken as successful only when it printed a single line
ProbeOkSingleLine(rc, stdout) == rc = 0 /\ Truthy(Strip(stdout)) /\ ~Contains(stdout, NL)

\* `rc == 0 and stdout.strip()`
ProbeOk(rc, stdout) == rc = 0 /\ Truthy(Strip(stdout))

RouteFact(gateway, iface, evidence) ==
    [returned |-> TRUE, gateway |-> gateway, interface |-> iface,
     not_checked |-> FALSE, error |-> Nothing, remediation |-> None,
     evidence |-> evidence]

\* the default row taken whatever its number of columns
RECURSIVE RouteScanAnyWidth(_, _)
RouteScanAnyWidth(lines, k) ==
    IF k > Len(lines) THEN <<None, None>>
    ELSE LET parts == lines[k]
         IN  IF parts = <<>> \/ LowerTok(parts[1]) \in {"destination", "kernel"}
             THEN RouteScanAnyWidth(lines, k + 1)
             ELSE IF Len(parts) >= 2
                     /\ (parts[1] = "0.0.0.0" \/ LowerTok(parts[1]) = "default")
                  THEN <<parts[2], parts[Len(parts)]>>
                  ELSE RouteScanAnyWidth(lines, k + 1)

\* `route -n`: the first row of at least 8 columns whose destination is
\* 0.0.0.0 or default; header rows are skipped
RECURSIVE RouteScan(_, _)
RouteScan(lines, k) ==
    IF k > Len(lines) THEN <<None, None>>
    ELSE LET parts == lines[k]
         IN  IF parts = <<>> \/ LowerTok(parts[1]) \in {"destination", "kernel"}
             THEN RouteScan(lines, k + 1)
             ELSE IF Len(parts) >= 8
                     /\ (parts[1] = "0.0.0.0" \/ LowerTok(parts[1]) = "default")
                  THEN <<parts[2], parts[Len(parts)]>>
                  ELSE RouteScan(lines, k + 1)

ParseRouteN(out2) == RouteScan(SplitLines(out2), 1)

\* `netstat -rn`: the first row of at least 3 columns whose first column is
\* default, whatever its case
RECURSIVE NetstatScan(_, _)
NetstatScan(lines, k) ==
    IF k > Len(lines) THEN <<None, None>>
    ELSE LET parts == lines[k]
         IN  IF parts = <<>> THEN NetstatScan(lines, k + 1)
             ELSE IF Len(parts) >= 3 /\ LowerTok(parts[1]) = "default"
                  THEN <<parts[2], parts[Len(parts)]>>
                  ELSE NetstatScan(lines, k + 1)

ParseNetstat(out3) == NetstatScan(SplitLines(out3), 1)

DEFAULT_ROUTE_ERROR == <<"Could not determine default route">>
DEFAULT_ROUTE_REMEDIATION ==
    "Ensure iproute2 is installed (ip command) or provide route/netstat; run with appropriate permissions."

\* the return that ends get_linux_default_route when every command failed
RouteNotChecked(evidence, evidence2, evidence3) ==
    [returned |-> TRUE, gateway |-> None, interface |-> None,
     not_checked |-> TRUE,
     error |-> Some(Or(evidence.stderr, Or(evidence.stdout, Or(evidence2.stderr,
                    Or(evidence2.stdout, Or(evidence3.stderr,
                    Or(evidence3.stdout, DEFAULT_ROUTE_ERROR))))))),
     remediation |-> DEFAULT_ROUTE_REMEDIATION,
     evidence |-> [primary |-> evidence, fallback_route |-> evidence2,
                   fallback_netstat |-> evidence3]]

\* what the three commands can print
RECURSIVE Fill(_)
Fill(n) == IF n = 0 THEN <<>> ELSE <<"UG">> \o Fill(n - 1)

RouteRow(dest, n) == <<dest, "192.168.1.1">> \o Fill(n) \o <<"eth0">>
RouteHeader == <<"Kernel", "table", NL, "Destination", "Gateway", NL>>
RouteToks == {"0.0.0.0", "default", "eth0", NL}
\* a second row, through another gateway and interface
RouteRowVpn(dest, n) == <<dest, "10.9.9.9">> \o Fill(n) \o <<"tun0">>
RouteDests == {"0.0.0.0", "default", "Default", "10.0.0.0"}
RouteOuts ==
    SeqsUpTo(RouteToks, MaxRouteLen)
    \cup {h \o RouteRow(d, n) : h \in {<<>>, RouteHeader}, d \in RouteDests,
                               n \in 0..MaxFill}
    \cup {RouteRow(d, n) \o <<NL>> \o RouteRowVpn(e, MaxFill) :
               d \in RouteDests, e \in {"0.0.0.0", "default"}, n \in {0, MaxFill}}

NetstatToks == {"default", "Default", "192.168.1.1", "en0", NL}
NetstatOuts ==
    SeqsUpTo(NetstatToks, MaxNetstatLen)
    \cup {<<d, "192.168.1.1">> \o tail \o <<NL, e, "10.9.9.9", "UGSc", "utun0">> :
               d \in {"default", "Default", "10.0.0.0"}, e \in {"default", "DEFAULT"},
               tail \in {<<>>, <<"en0">>}}

IpProcs == Succeeding(IpOuts) \cup Failing("ip") \cup Aborted
RouteProcs == Succeeding(RouteOuts) \cup Failing("route") \cup Aborted
NetstatProcs == Succeeding(NetstatOuts) \cup Failing("netstat") \cup Aborted

Call(cmd, proc, ret) == [cmd |-> cmd, proc |-> proc, ret |-> ret]

InvokeLinuxDefaultRoute ==
    /\ fn = "idle"
    /\ fn' = "get_linux_default_route"
    /\ pc' = "ip"
    /\ UNCHANGED <<calls, lv, result, raised, fs>>

\* lines 35-73: `ip route show default`
LinuxRouteIp ==
    /\ fn = "get_linux_default_route" /\ pc = "ip"
    /\ \E proc \in IpProcs :
         LET r == run_cmd(CMD_IP, proc)
         IN  /\ calls' = Append(calls, Call(CMD_IP, proc, r))
             /\ IF r.type = "raise"
                THEN /\ raised' = r.exc
                     /\ pc' = "done"
                     /\ UNCHANGED <<lv, result>>
                ELSE LET evidence == get_evidence(CMD_IP, r.rc, r.stdout, r.stderr)
                     IN  IF ProbeOk(r.rc, r.stdout)
                         THEN /\ result' = RouteFact(ParseIpRoute(r.stdout)[1],
                                                     ParseIpRoute(r.stdout)[2], evidence)
                              /\ pc' = "done"
                              /\ UNCHANGED <<lv, raised>>
                         ELSE /\ lv' = [evidence |-> evidence]
                              /\ pc' = "route"
                              /\ UNCHANGED <<result, raised>>
    /\ UNCHANGED <<fn, fs>>

\* lines 79-103: `route -n`
LinuxRouteRouteN ==
    /\ fn = "get_linux_default_route" /\ pc = "route"
    /\ \E proc \in RouteProcs :
         LET r == run_cmd(CMD_ROUTE, proc)
         IN  /\ calls' = Append(calls, Call(CMD_ROUTE, proc, r))
             /\ IF r.type = "raise"
                THEN /\ raised' = r.exc
                     /\ pc' = "done"
                     /\ UNCHANGED <<lv, result>>
                ELSE LET evidence2 == get_evidence(CMD_ROUTE, r.rc, r.stdout, r.stderr)
                     IN  IF ProbeOk(r.rc, r.stdout)
                         THEN /\ result' = RouteFact(ParseRouteN(r.stdout)[1],
                                                     ParseRouteN(r.stdout)[2], evidence2)
                              /\ pc' = "done"
                              /\ UNCHANGED <<lv, raised>>
                         ELSE /\ lv' = [evidence |-> lv.evidence, evidence2 |-> evidence2]
                              /\ pc' = "netstat"
                              /\ UNCHANGED <<result, raised>>
    /\ UNCHANGED <<fn, fs>>

\* lines 108-145: `netstat -rn`, then the not_checked return
LinuxRouteNetstat ==
    /\ fn = "get_linux_default_route" /\ pc = "netstat"
    /\ \E proc \in NetstatProcs :
         LET r == run_cmd(CMD_NETSTAT, proc)
         IN  /\ calls' = Append(calls, Call(CMD_NETSTAT, proc, r))
             /\ IF r.type = "raise"
                THEN /\ raised' = r.exc
                     /\ UNCHANGED result
                ELSE LET evidence3 == get_evidence(CMD_NETSTAT, r.rc, r.stdout, r.stderr)
                     IN  /\ result' =
                               IF ProbeOk(r.rc, r.stdout)
                               THEN RouteFact(ParseNetstat(r.stdout)[1],
                                              ParseNetstat(r.stdout)[2], evidence3)
                               ELSE RouteNotChecked(lv.evidence, lv.evidence2, evidence3)
                         /\ UNCHANGED raised
    /\ pc' = "done"
    /\ UNCHANGED <<fn, lv, fs>>

NextLinuxRoute ==
    \/ InvokeLinuxDefaultRoute
    \/ LinuxRouteIp
    \/ LinuxRouteRouteN
    \/ LinuxRouteNetstat

----------------------------------------------------------------------------
(* collectors/linux/linux_network.py: get_linux_dns_config *)

CMD_RESOLVECTL == <<"resolvectl", "status">>
RESOLV_CONF == "/etc/resolv.conf"

\* `s.startswith(key)`, key being the first words of a line; no word of the
\* texts below extends the last word of a key
StartsWith(line, key) ==
    Len(line) >= Len(key) /\ SubSeq(line, 1, Len(key)) = key

\* `s.split(":", 1)[1].strip().split()` on a line that starts with a key whose
\* last word ends with the first colon of the line: the words after the key
AfterKey(line, key) == SubSeq(line, Len(key) + 1, Len(line))

\* every token appended, seen before or not
AppendAll(list, toks) == list \o toks

\* `for tok in toks: if tok not in list: list.append(tok)`
RECURSIVE AppendNew(_, _)
AppendNew(list, toks) ==
    IF toks = <<>> THEN list
    ELSE AppendNew(IF Head(toks) \in Range(list) THEN list
                   ELSE Append(list, Head(toks)), Tail(toks))

KEY_DNS_SERVERS == <<"DNS", "Servers:">>
KEY_DNS_DOMAIN == <<"DNS", "Domain:">>
KEY_DOMAINS == <<"Domains:">>
KEY_SEARCH_DOMAINS == <<"Search", "Domains:">>

\* lines 188-210: the three tests are made on every line, in this order
RECURSIVE ResolvectlScan(_, _, _, _)
ResolvectlScan(lines, k, nameservers, search_domains) ==
    IF k > Len(lines) THEN <<nameservers, search_domains>>
    ELSE LET s == lines[k]
             ns1 == IF StartsWith(s, KEY_DNS_SERVERS)
                    THEN AppendNew(nameservers, AfterKey(s, KEY_DNS_SERVERS))
                    ELSE nameservers
             sd1 == IF StartsWith(s, KEY_DNS_DOMAIN)
                    THEN AppendNew(search_domains, AfterKey(s, KEY_DNS_DOMAIN))
                    ELSE search_domains
             sd2 == IF StartsWith(s, KEY_DOMAINS)
                    THEN AppendNew(sd1, AfterKey(s, KEY_DOMAINS))
                    ELSE IF StartsWith(s, KEY_SEARCH_DOMAINS)
                    THEN AppendNew(sd1, AfterKey(s, KEY_SEARCH_DOMAINS))
                    ELSE sd1
         IN  ResolvectlScan(lines, k + 1, ns1, sd2)

ParseResolvectl(stdout) == ResolvectlScan(SplitLines(stdout), 1, <<>>, <<>>)

\* `s.startswith(p)` decided on the first word of a line: the word is p, or
\* a longer word that begins with p
HasPrefix(tok, p) ==
    tok = p \/ <<tok, p>> \in {<<"nameservers", "nameserver">>,
                             <<"nameserver[0]", "nameserver[">>,
                             <<"nameserver[1]", "nameserver[">>,
                             <<"domain[0]", "domain[">>}

\* lines 242-265: blank lines and comments are skipped, then the three tests
\* are made in this order
RECURSIVE ResolvConfScan(_, _, _, _)
ResolvConfScan(lines, k, nameservers, search_domains) ==
    IF k > Len(lines) THEN <<nameservers, search_domains>>
    ELSE LET parts == lines[k]
         IN  IF parts = <<>> \/ HasPrefix(parts[1], "#")
             THEN ResolvConfScan(lines, k + 1, nameservers, search_domains)
             ELSE LET ns1 == IF HasPrefix(parts[1], "nameserver") /\ Len(parts) >= 2
                             THEN AppendNew(nameservers, <<parts[2]>>)
                             ELSE nameservers
                      sd1 == IF HasPrefix(parts[1], "search")
                             THEN AppendNew(search_domains, Tail(parts))
                             ELSE search_domains
                      sd2 == IF HasPrefix(parts[1], "domain") /\ Len(parts) >= 2
                             THEN AppendNew(sd1, <<parts[2]>>)
                             ELSE sd1
                  IN  ResolvConfScan(lines, k + 1, ns1, sd2)

ParseResolvConf(text) == ResolvConfScan(SplitLines(text), 1, <<>>, <<>>)

\* `"\n".join(lines)`
RECURSIVE Join(_)
Join(lines) ==
    IF lines = <<>> THEN <<>>
    ELSE IF Len(lines) = 1 THEN lines[1]
    ELSE lines[1] \o <<NL>> \o Join(Tail(lines))

PREVIEW_LINES == 50

\* `text.splitlines()[:50]`
FirstLines(text) ==
    LET lines == SplitLines(text)
    IN  IF Len(lines) <= PREVIEW_LINES THEN lines ELSE SubSeq(lines, 1, PREVIEW_LINES)

\* lines 212-220
DnsFromResolvectl(stdout, evidence) ==
    [returned |-> TRUE, source |-> "resolvectl",
     nameservers |-> ParseResolvectl(stdout)[1],
     search_domains |-> ParseResolvectl(stdout)[2],
     not_checked |-> FALSE, error |-> Nothing, remediation |-> None,
     evidence |-> evidence]

\* f"{type(e).__name__}: {e}"
FormatExc(e) == <<e.type, ":">> \o e.msg

RESOLV_CONF_REMEDIATION ==
    "Could not read /etc/resolv.conf; run with appropriate permissions or check file existence."

\* the read error answered with the local stub resolver as name server
DnsReadErrorStubbed(e, evidence) ==
    [returned |-> TRUE, source |-> None, nameservers |-> <<"127.0.0.53">>,
     search_domains |-> <<>>,
     not_checked |-> TRUE, error |-> Some(FormatExc(e)),
     remediation |-> RESOLV_CONF_REMEDIATION,
     evidence |-> [resolvectl |-> evidence, resolv_conf_path |-> RESOLV_CONF]]

\* the read error given back without the resolvectl attempt
DnsReadErrorWithoutAttempt(e, evidence) ==
    [returned |-> TRUE, source |-> None, nameservers |-> <<>>, search_domains |-> <<>>,
     not_checked |-> TRUE, error |-> Some(FormatExc(e)),
     remediation |-> RESOLV_CONF_REMEDIATION,
     evidence |-> [resolv_conf_path |-> RESOLV_CONF]]

\* lines 227-236
DnsReadError(e, evidence) ==
    [returned |-> TRUE, source |-> None, nameservers |-> <<>>, search_domains |-> <<>>,
     not_checked |-> TRUE, error |-> Some(FormatExc(e)),
     remediation |-> RESOLV_CONF_REMEDIATION,
     evidence |-> [resolvectl |-> evidence, resolv_conf_path |-> RESOLV_CONF]]

\* lines 267-280
DnsFromResolvConf(text, evidence) ==
    [returned |-> TRUE, source |-> "resolv.conf",
     nameservers |-> ParseResolvConf(text)[1],
     search_domains |-> ParseResolvConf(text)[2],
     not_checked |-> FALSE, error |-> Nothing, remediation |-> None,
     evidence |-> [resolvectl |-> evidence, resolv_conf_path |-> RESOLV_CONF,
                   resolv_conf_preview |-> Join(FirstLines(text))]]

\* the name servers and domains that the lines of the texts below carry
DnsVals == {"1.1.1.1", "corp.lan"}
DnsTails == SeqsUpTo(DnsVals, 2)

\* texts of at most n lines taken from `lines`
RECURSIVE TextsUpTo(_, _)
TextsUpTo(lines, n) ==
    IF n = 0 THEN {<<>>}
    ELSE LET P == TextsUpTo(lines, n - 1)
         IN  P \cup lines \cup {t \o <<NL>> \o l : t \in (P \ {<<>>}), l \in lines}

ResolvectlLines ==
    {key \o tail : key \in {KEY_DNS_SERVERS, KEY_DNS_DOMAIN, KEY_DOMAINS, KEY_SEARCH_DOMAINS,
                            <<"Current", "DNS", "Server:">>},
                   tail \in DnsTails}
ResolvectlOuts == TextsUpTo(ResolvectlLines, MaxResolvectlLines)

ResolvConfLines ==
    {<<key>> \o tail : key \in {"nameserver", "nameservers", "search", "domain", "#"},
                       tail \in DnsTails}
ResolvConfTexts == TextsUpTo(ResolvConfLines, MaxResolvConfLines)

\* resolvectl ends with an answer, with nothing, with a failure, or not at all
ResolvectlProcs ==
    Succeeding(ResolvectlOuts)
        \cup {p \in Failing("resolvectl") : p.rc = 1 /\ p.out = <<>>} \cup Aborted

\* what open() and read() of a file can do
ReadOk(text) == [kind |-> "read", text |-> text]
ReadRaises(type, msg) == [kind |-> "raise", type |-> type, msg |-> msg]
ReadErrors ==
    {ReadRaises("FileNotFoundError", <<"[Errno 2] No such file or directory">>),
     ReadRaises("PermissionError", <<"[Errno 13] Permission denied">>)}
ResolvConfReads == {ReadOk(text) : text \in ResolvConfTexts} \cup ReadErrors

InvokeLinuxDns ==
    /\ fn = "idle"
    /\ fn' = "get_linux_dns_config"
    /\ pc' = "resolvectl"
    /\ UNCHANGED <<calls, lv, result, raised, fs>>

\* lines 180-220
LinuxDnsResolvectl ==
    /\ fn = "get_linux_dns_config" /\ pc = "resolvectl"
    /\ \E proc \in ResolvectlProcs :
         LET r == run_cmd(CMD_RESOLVECTL, proc)
         IN  /\ calls' = Append(calls, Call(CMD_RESOLVECTL, proc, r))
             /\ IF r.type = "raise"
                THEN /\ raised' = r.exc /\ pc' = "done" /\ UNCHANGED <<lv, result>>
                ELSE LET evidence == get_evidence(CMD_RESOLVECTL, r.rc, r.stdout, r.stderr)
                     IN  IF ProbeOk(r.rc, r.stdout)
                         THEN /\ result' = DnsFromResolvectl(r.stdout, evidence)
                              /\ pc' = "done" /\ UNCHANGED <<lv, raised>>
                         ELSE /\ lv' = [evidence |-> evidence] /\ pc' = "resolv_conf"
                              /\ UNCHANGED <<result, raised>>
    /\ UNCHANGED <<fn, fs>>

\* lines 223-280: no command is run, the file is read; what was read stays
\* in the locals
LinuxDnsResolvConf ==
    /\ fn = "get_linux_dns_config" /\ pc = "resolv_conf"
    /\ \E read \in ResolvConfReads :
         /\ lv' = [evidence |-> lv.evidence, read |-> read]
         /\ result' = IF read.kind = "raise"
                      THEN DnsReadError(read, lv.evidence)
                      ELSE DnsFromResolvConf(read.text, lv.evidence)
    /\ pc' = "done"
    /\ UNCHANGED <<fn, calls, raised, fs>>

NextLinuxDns ==
    \/ InvokeLinuxDns
    \/ LinuxDnsResolvectl
    \/ LinuxDnsResolvConf

----------------------------------------------------------------------------
(* collectors/linux/linux_network.py: get_linux_proxy_config *)
(* The environment values and the lines of /etc/environment keep their     *)
(* blanks: such a text is a sequence of lexemes, SP being a blank; a name,  *)
(* a URL, "=", a quote and "#" are one lexeme each.                         *)

ETC_ENVIRONMENT == "/etc/environment"

\* lines 313-318: the first of the variables that is set to a non-empty
\* value, stripped; os.environ.get(k) is Nothing for a variable that is not set
RECURSIVE _get_env_any(_, _)
_get_env_any(environ, keys) ==
    IF keys = <<>> THEN Nothing
    ELSE IF TruthyOpt(environ[Head(keys)]) THEN Some(Strip(environ[Head(keys)][1]))
    ELSE _get_env_any(environ, Tail(keys))

HTTP_KEYS == <<"HTTP_PROXY", "http_proxy">>
HTTPS_KEYS == <<"HTTPS_PROXY", "https_proxy">>
NO_KEYS == <<"NO_PROXY", "no_proxy">>

\* "env" listed whatever the lookup gave
EnvSourcesAlways(http_proxy, https_proxy, no_proxy) == <<"env">>

\* lines 324-326
EnvSources(http_proxy, https_proxy, no_proxy) ==
    IF TruthyOpt(http_proxy) \/ TruthyOpt(https_proxy) \/ TruthyOpt(no_proxy)
    THEN <<"env">> ELSE <<>>

\* str.strip(ch): the leading and trailing ch removed
RECURSIVE StripChar(_, _)
StripChar(t, ch) ==
    IF t # <<>> /\ Head(t) = ch THEN StripChar(Tail(t), ch)
    ELSE IF t # <<>> /\ t[Len(t)] = ch THEN StripChar(SubSeq(t, 1, Len(t) - 1), ch)
    ELSE t

\* the file value taken whether or not the key already has a value
FillsAlways(current, v) == v # <<>>

\* `not http_proxy and v`: the key has no value yet and the line gives one
Fills(current, v) == ~TruthyOpt(current) /\ v # <<>>

\* lines 346-347: `k, v = s.split("=", 1); k = k.strip()`
ProxyKey(s) == Strip(SubSeq(s, 1, Index(s, "=") - 1))

\* lines 346-348: `v = v.strip().strip('"').strip("'")`
ProxyValue(s) ==
    StripChar(StripChar(Strip(SubSeq(s, Index(s, "=") + 1, Len(s))), "\""), "'")

\* lines 350-360 on one line that has a "=": only the first of the three
\* appends to sources without looking for the tag
ProxyLine(s, st) ==
    LET k == ProxyKey(s)
        v == ProxyValue(s)
        a == IF k \in {<<"HTTP_PROXY">>, <<"http_proxy">>} /\ Fills(st.http_proxy, v)
             THEN [st EXCEPT !.http_proxy = Some(v),
                             !.sources = Append(@, "etc_environment")]
             ELSE st
        b == IF k \in {<<"HTTPS_PROXY">>, <<"https_proxy">>} /\ Fills(a.https_proxy, v)
             THEN [a EXCEPT !.https_proxy = Some(v),
                            !.sources = AppendNew(@, <<"etc_environment">>)]
             ELSE a
    IN  IF k \in {<<"NO_PROXY">>, <<"no_proxy">>} /\ Fills(b.no_proxy, v)
        THEN [b EXCEPT !.no_proxy = Some(v),
                       !.sources = AppendNew(@, <<"etc_environment">>)]
        ELSE b

\* lines 342-360
RECURSIVE ProxyScan(_, _, _)
ProxyScan(lines, n, st) ==
    IF n > Len(lines) THEN st
    ELSE LET s == Strip(lines[n])
         IN  IF s = <<>> \/ HasPrefix(s[1], "#") \/ ~Contains(s, "=")
             THEN ProxyScan(lines, n + 1, st)
             ELSE ProxyScan(lines, n + 1, ProxyLine(s, st))

\* bool(os.environ.get(K) or os.environ.get(k))
EnvPresent(environ, keys) == TruthyOpt(environ[keys[1]]) \/ TruthyOpt(environ[keys[2]])

\* lines 320-382; etc_env_text is Nothing when the file could not be read
ProxyFact(environ, etc_env_text) ==
    LET http_proxy == _get_env_any(environ, HTTP_KEYS)
        https_proxy == _get_env_any(environ, HTTPS_KEYS)
        no_proxy == _get_env_any(environ, NO_KEYS)
        st0 == [http_proxy |-> http_proxy, https_proxy |-> https_proxy,
                no_proxy |-> no_proxy,
                sources |-> EnvSources(http_proxy, https_proxy, no_proxy)]
        st == IF TruthyOpt(etc_env_text)
              THEN ProxyScan(SplitLines(etc_env_text[1]), 1, st0)
              ELSE st0
    IN  [returned |-> TRUE, http_proxy |-> st.http_proxy, https_proxy |-> st.https_proxy,
         no_proxy |-> st.no_proxy, sources |-> st.sources,
         not_checked |-> FALSE, error |-> Nothing, remediation |-> None,
         evidence |-> [env_present |-> [HTTP_PROXY |-> EnvPresent(environ, HTTP_KEYS),
                                        HTTPS_PROXY |-> EnvPresent(environ, HTTPS_KEYS),
                                        NO_PROXY |-> EnvPresent(environ, NO_KEYS)],
                       etc_environment_path |-> ETC_ENVIRONMENT,
                       etc_environment_preview |->
                           IF TruthyOpt(etc_env_text)
                           THEN Some(Join(FirstLines(etc_env_text[1])))
                           ELSE Nothing]]

ENV_NAMES == {"HTTP_PROXY", "http_proxy", "HTTPS_PROXY", "https_proxy", "NO_PROXY", "no_proxy"}

P_URL == <<"http://p:8080">>
Q_URL == <<"http://q:3128">>
R_URL == <<"http://r:3128">>

\* how the upper-case and the lower-case variable of one key can be set: not
\* at all, one of them, both, the first one empty or blank, with blanks around
EnvPairs ==
    {<<Nothing, Nothing>>, <<Some(P_URL), Nothing>>, <<Some(<<>>), Some(R_URL)>>,
     <<Some(P_URL), Some(R_URL)>>, <<Some(<<SP>>), Some(R_URL)>>,
     <<Some(<<SP>> \o P_URL \o <<SP>>), Nothing>>}

\* the process environment, as far as the proxy variables go
Environs ==
    {[name \in ENV_NAMES |->
         CASE name = "HTTP_PROXY" -> h[1] [] name = "http_proxy" -> h[2]
           [] name = "HTTPS_PROXY" -> s[1] [] name = "https_proxy" -> s[2]
           [] name = "NO_PROXY" -> n[1] [] name = "no_proxy" -> n[2]] :
     h \in EnvPairs,
     s \in {<<Nothing, Nothing>>, <<Some(P_URL), Nothing>>, <<Some(<<SP>>), Some(R_URL)>>},
     n \in {<<Nothing, Nothing>>, <<Nothing, Some(<<"localhost">>)>>}}

EtcEnvironmentLines ==
    {<<"http_proxy", "=", "http://q:3128">>,
     <<"HTTP_PROXY", "=", "\"", "http://r:3128", "\"">>,
     <<"http_proxy", "=">>,
     <<"http_proxy">>,
     <<"#", "http_proxy", "=", "http://q:3128">>,
     <<"https_proxy", "=", "http://q:3128">>,
     <<SP, "HTTPS_PROXY", SP, "=", SP, "http://r:3128", SP>>,
     <<"https_proxy", "=", "\"", "\"">>,
     <<"no_proxy", "=", "'", "127.0.0.1", "'">>,
     <<"PATH", "=", "/usr/bin">>}
EtcEnvironmentTexts == TextsUpTo(EtcEnvironmentLines, MaxEtcEnvironmentLines)
EtcEnvironmentReads == {ReadOk(text) : text \in EtcEnvironmentTexts} \cup ReadErrors

InvokeLinuxProxy ==
    /\ fn = "idle"
    /\ fn' = "get_linux_proxy_config"
    /\ pc' = "environ"
    /\ UNCHANGED <<calls, lv, result, raised, fs>>

\* lines 320-382: no command is run; the environment and what the read of
\* /etc/environment gave stay in the locals
LinuxProxyResolve ==
    /\ fn = "get_linux_proxy_config" /\ pc = "environ"
    /\ \E environ \in Environs, read \in EtcEnvironmentReads :
         /\ lv' = [environ |-> environ, read |-> read]
         /\ result' = ProxyFact(environ, IF read.kind = "raise" THEN Nothing
                                         ELSE Some(read.text))
    /\ pc' = "done"
    /\ UNCHANGED <<fn, calls, raised, fs>>

NextLinuxProxy ==
    \/ InvokeLinuxProxy
    \/ LinuxProxyResolve

----------------------------------------------------------------------------
(* collectors/mac.py *)

SFW == "/usr/libexec/ApplicationFirewall/socketfilterfw"

\* collectors/mac.py has its own copy of run_cmd
mac_run_cmd(cmd, proc) ==
    IF proc.kind = "exit"
    THEN [type |-> "return", rc |-> proc.rc,
          stdout |-> Strip(proc.out), stderr |-> Strip(proc.err)]
    ELSE [type |-> "raise", exc |-> ExcOf(proc.kind)]


\* the unusual state 2 tested before the disabled state 0
_parse_state_2_first(output) ==
    IF Contains(output, "State = 1") THEN <<1>>
    ELSE IF Contains(output, "State = 2") THEN <<2>>
    ELSE IF Contains(output, "State = 0") THEN <<0>>
    ELSE <<>>

_parse_state(output) ==
    IF Contains(output, "State = 1") THEN <<1>>
    ELSE IF Contains(output, "State = 0") THEN <<0>>
    ELSE IF Contains(output, "State = 2") THEN <<2>>
    ELSE <<>>


\* the match made on the output as printed, without lower()
_parse_on_off_case_sensitive(output) ==
    IF Contains(output, "enabled") THEN <<TRUE>>
    ELSE IF Contains(output, "disabled") THEN <<FALSE>>
    ELSE <<>>

_parse_on_off(output) ==
    LET low == Lower(output)
    IN  IF Contains(low, "enabled") THEN <<TRUE>>
        ELSE IF Contains(low, "disabled") THEN <<FALSE>>
        ELSE <<>>

Finding(severity, title, detail, remediation) ==
    [severity |-> severity, title |-> title, detail |-> detail,
     remediation |-> remediation]

AuditResult(id, name, weight, status, score_factor, evidence, findings) ==
    [returned |-> TRUE, id |-> id, name |-> name, weight |-> weight,
     status |-> status, score_factor |-> score_factor, evidence |-> evidence,
     findings |-> findings]

Probe(rc, out, err) == [rc |-> rc, stdout |-> out, stderr |-> err]

\* score_factor values, in tenths
SCORE_PASS == 10
SCORE_WARN == 5
SCORE_FAIL == 0

\* an inability to probe scored like a confirmed failure
SCORE_NOT_CHECKED_AS_FAIL == SCORE_FAIL

\* the factor of a check that could not be made
SCORE_NOT_CHECKED == 6

FIREWALL_NAME == "Firewall status (macOS Application Firewall)"
FIREWALL_NOTES == "Uses macOS Application Firewall (ALF) via socketfilterfw"

\* a probe that could not run reported as a disabled firewall
FirewallNotCheckedAsFail(rc1, out1, err1) ==
    AuditResult("firewall", FIREWALL_NAME, 10, "FAIL", SCORE_FAIL,
        [tool |-> SFW, notes |-> FIREWALL_NOTES,
         getglobalstate |-> Probe(rc1, out1, err1)],
        <<Finding("HIGH", "Firewall is disabled",
                  [text |-> "macOS Application Firewall reports State = 0 (off)."],
                  "Enable Firewall in System Settings -> Network -> Firewall.")>>)

\* lines 99-115: the global state could not be queried
FirewallNotChecked(rc1, out1, err1) ==
    AuditResult("firewall", FIREWALL_NAME, 10, "NOT_CHECKED", SCORE_NOT_CHECKED,
        [tool |-> SFW, notes |-> FIREWALL_NOTES,
         getglobalstate |-> Probe(rc1, out1, err1)],
        <<Finding("MEDIUM", "Could not query firewall state",
                  [text |-> "socketfilterfw failed", rc |-> rc1,
                   output |-> Or(err1, out1)],
                  "Run as sudo/root and confirm the binary exists at /usr/libexec/ApplicationFirewall/socketfilterfw.")>>)

\* lines 148-218: PASS / WARN / FAIL from the parsed values
FirewallDecision(state, stealth, out1, evidence) ==
    IF state = <<0>>
    THEN AuditResult("firewall", FIREWALL_NAME, 10, "FAIL", SCORE_FAIL, evidence,
            <<Finding("HIGH", "Firewall is disabled",
                      [text |-> "macOS Application Firewall reports State = 0 (off)."],
                      "Enable Firewall in System Settings -> Network -> Firewall.")>>)
    ELSE IF state = <<1>>
    THEN IF stealth = <<FALSE>>
         THEN AuditResult("firewall", FIREWALL_NAME, 10, "WARN", SCORE_WARN, evidence,
                 <<Finding("LOW", "Stealth mode is disabled",
                           [text |-> "Firewall is enabled, but stealth mode appears disabled."],
                           "Consider enabling Stealth Mode if appropriate for the environment.")>>)
         ELSE AuditResult("firewall", FIREWALL_NAME, 10, "PASS", SCORE_PASS, evidence, <<>>)
    ELSE AuditResult("firewall", FIREWALL_NAME, 10, "WARN", SCORE_WARN, evidence,
            <<Finding("LOW", "Firewall state could not be interpreted",
                      [text |-> "Unexpected output:", output |-> Repr(out1)],
                      "Verify firewall settings manually and expand parsing rules if needed.")>>)

\* the block-all setting deciding between PASS and WARN in place of stealth mode
FirewallCheckedBlockAllDecides(p1, p2, p3) ==
    LET state == _parse_state(p1.stdout)
        stealth == IF p2.rc = 0 THEN _parse_on_off(p2.stdout) ELSE <<>>
        block_all == IF p3.rc = 0 THEN _parse_on_off(p3.stdout) ELSE <<>>
        evidence == [tool |-> SFW, notes |-> FIREWALL_NOTES,
                     getglobalstate |-> p1,
                     parsed |-> [global_state |-> state, stealth_mode |-> stealth,
                                 block_all |-> block_all],
                     getstealthmode |-> p2,
                     getblockall |-> p3]
    IN  FirewallDecision(state, block_all, p1.stdout, evidence)

\* lines 118-139, then the decision
FirewallChecked(p1, p2, p3) ==
    LET state == _parse_state(p1.stdout)
        stealth == IF p2.rc = 0 THEN _parse_on_off(p2.stdout) ELSE <<>>
        block_all == IF p3.rc = 0 THEN _parse_on_off(p3.stdout) ELSE <<>>
        evidence == [tool |-> SFW, notes |-> FIREWALL_NOTES,
                     getglobalstate |-> p1,
                     parsed |-> [global_state |-> state, stealth_mode |-> stealth,
                                 block_all |-> block_all],
                     getstealthmode |-> p2,
                     getblockall |-> p3]
    IN  FirewallDecision(state, stealth, p1.stdout, evidence)

CMD_GLOBALSTATE == <<SFW, "--getglobalstate">>
CMD_STEALTHMODE == <<SFW, "--getstealthmode">>
CMD_BLOCKALL == <<SFW, "--getblockall">>
CMD_FDESETUP == <<"fdesetup", "status">>

StateToks == {"State = 0", "State = 1", "State = 2", "Firewall", NL}
OnOffToks == {"enabled", "Disabled", "mode", NL}

\* a failing --getglobalstate may still print a state phrase
GlobalStateProcs ==
    Succeeding(SeqsUpTo(StateToks, MaxStateLen)) \cup Failing("State = 0") \cup Aborted
StealthProcs ==
    Succeeding(SeqsUpTo(OnOffToks, MaxStealthLen))
    \cup {Exit(1, out, <<>>) : out \in {<<>>, <<"Disabled">>}} \cup Aborted
BlockAllProcs ==
    Succeeding(SeqsUpTo(OnOffToks, MaxBlockAllLen))
    \cup {Exit(1, out, <<>>) : out \in {<<>>, <<"Disabled">>}} \cup Aborted

InvokeMacFirewall ==
    /\ fn = "idle"
    /\ fn' = "check_mac_firewall_status"
    /\ pc' = "getglobalstate"
    /\ UNCHANGED <<calls, lv, result, raised, fs>>

\* lines 94-115
FirewallGlobalState ==
    /\ fn = "check_mac_firewall_status" /\ pc = "getglobalstate"
    /\ \E proc \in GlobalStateProcs :
         LET r == mac_run_cmd(CMD_GLOBALSTATE, proc)
         IN  /\ calls' = Append(calls, Call(CMD_GLOBALSTATE, proc, r))
             /\ IF r.type = "raise"
                THEN /\ raised' = r.exc
                     /\ pc' = "done"
                     /\ UNCHANGED <<lv, result>>
                ELSE IF r.rc # 0
                THEN /\ result' = FirewallNotChecked(r.rc, r.stdout, r.stderr)
                     /\ pc' = "done"
                     /\ UNCHANGED <<lv, raised>>
                ELSE /\ lv' = [p1 |-> Probe(r.rc, r.stdout, r.stderr)]
                     /\ pc' = "getstealthmode"
                     /\ UNCHANGED <<result, raised>>
    /\ UNCHANGED <<fn, fs>>

\* line 126
FirewallStealthMode ==
    /\ fn = "check_mac_firewall_status" /\ pc = "getstealthmode"
    /\ \E proc \in StealthProcs :
         LET r == mac_run_cmd(CMD_STEALTHMODE, proc)
         IN  /\ calls' = Append(calls, Call(CMD_STEALTHMODE, proc, r))
             /\ IF r.type = "raise"
                THEN /\ raised' = r.exc
                     /\ pc' = "done"
                     /\ UNCHANGED lv
                ELSE /\ lv' = [p1 |-> lv.p1, p2 |-> Probe(r.rc, r.stdout, r.stderr)]
                     /\ pc' = "getblockall"
                     /\ UNCHANGED raised
    /\ UNCHANGED <<fn, result, fs>>

\* lines 127-218
FirewallBlockAll ==
    /\ fn = "check_mac_firewall_status" /\ pc = "getblockall"
    /\ \E proc \in BlockAllProcs :
         LET r == mac_run_cmd(CMD_BLOCKALL, proc)
         IN  /\ calls' = Append(calls, Call(CMD_BLOCKALL, proc, r))
             /\ IF r.type = "raise"
                THEN /\ raised' = r.exc
                     /\ UNCHANGED result
                ELSE /\ result' = FirewallChecked(lv.p1, lv.p2,
                                                  Probe(r.rc, r.stdout, r.stderr))
                     /\ UNCHANGED raised
    /\ pc' = "done"
    /\ UNCHANGED <<fn, lv, fs>>

FILEVAULT_NAME == "FileVault disk encryption status"

FdeEvidence(rc, out, err) ==
    [cmd |-> "fdesetup status", rc |-> rc, stdout |-> out, stderr |-> err]

\* lines 234-249
FileVaultNotChecked(rc, out, err) ==
    AuditResult("filevault", FILEVAULT_NAME, 20, "NOT_CHECKED", SCORE_NOT_CHECKED,
        FdeEvidence(rc, out, err),
        <<Finding("MEDIUM", "Could not query FileVault status",
                  [text |-> "fdesetup failed", rc |-> rc, output |-> Or(err, out)],
                  "Confirm the fdesetup command is available.")>>)

\* lines 253-261
FileVaultPass(rc, out, err) ==
    AuditResult("filevault", FILEVAULT_NAME, 20, "PASS", SCORE_PASS,
        FdeEvidence(rc, out, err), <<>>)

\* lines 263-278
FileVaultFail(rc, out, err) ==
    AuditResult("filevault", FILEVAULT_NAME, 20, "FAIL", SCORE_FAIL,
        FdeEvidence(rc, out, err),
        <<Finding("CRITICAL", "FileVault is disabled",
                  [text |-> "FileVault disk encryption is reported as off."],
                  "Enable FileVault in System Settings -> Privacy & Security -> FileVault.")>>)

\* lines 280-295
FileVaultWarn(rc, out, err) ==
    AuditResult("filevault", FILEVAULT_NAME, 20, "WARN", SCORE_WARN,
        FdeEvidence(rc, out, err),
        <<Finding("LOW", "FileVault status could not be interpreted",
                  [text |-> "Unexpected output:", output |-> Repr(out)],
                  "Verify FileVault settings manually and expand parsing rules if needed.")>>)

\* the off phrase tested before the on phrase
FileVaultDecisionOffFirst(rc, out, err) ==
    IF rc # 0 THEN FileVaultNotChecked(rc, out, err)
    ELSE IF Contains(Lower(out), "filevault is off") THEN FileVaultFail(rc, out, err)
    ELSE IF Contains(Lower(out), "filevault is on") THEN FileVaultPass(rc, out, err)
    ELSE FileVaultWarn(rc, out, err)

\* lines 226-295: the branches of check_mac_filevault_status
FileVaultDecision(rc, out, err) ==
    IF rc # 0 THEN FileVaultNotChecked(rc, out, err)
    ELSE IF Contains(Lower(out), "filevault is on") THEN FileVaultPass(rc, out, err)
    ELSE IF Contains(Lower(out), "filevault is off") THEN FileVaultFail(rc, out, err)
    ELSE FileVaultWarn(rc, out, err)

FdeToks == {"FileVault is On", "filevault is off", "Decryption in progress", NL}
FdeProcs == Succeeding(SeqsUpTo(FdeToks, MaxFdeLen)) \cup Failing("fdesetup") \cup Aborted

InvokeMacFileVault ==
    /\ fn = "idle"
    /\ fn' = "check_mac_filevault_status"
    /\ pc' = "fdesetup"
    /\ UNCHANGED <<calls, lv, result, raised, fs>>

\* lines 225-295
FileVaultStatus ==
    /\ fn = "check_mac_filevault_status" /\ pc = "fdesetup"
    /\ \E proc \in FdeProcs :
         LET r == mac_run_cmd(CMD_FDESETUP, proc)
         IN  /\ calls' = Append(calls, Call(CMD_FDESETUP, proc, r))
             /\ IF r.type = "raise"
                THEN /\ raised' = r.exc
                     /\ UNCHANGED result
                ELSE /\ result' = FileVaultDecision(r.rc, r.stdout, r.stderr)
                     /\ UNCHANGED raised
    /\ pc' = "done"
    /\ UNCHANGED <<fn, lv, fs>>

NextMacChecks ==
    \/ InvokeMacFirewall
    \/ FirewallGlobalState
    \/ FirewallStealthMode
    \/ FirewallBlockAll
    \/ InvokeMacFileVault
    \/ FileVaultStatus

----------------------------------------------------------------------------
(* collectors/mac/mac_network.py: get_mac_default_route, get_mac_dns_config *)

CMD_MAC_ROUTE == <<"route", "-n", "get", "default">>
CMD_SCUTIL_DNS == <<"scutil", "--dns">>
CMD_SCUTIL_PROXY == <<"scutil", "--proxy">>

\* the evidence dict the macOS resolvers build, its cmd being one string
MacEvidence(cmd, rc, stdout, stderr) ==
    [cmd |-> cmd, rc |-> rc, stdout |-> stdout, stderr |-> stderr]

MAC_ROUTE_REMEDIATION ==
    "Run with appropriate permissions and ensure the route command is available."
SCUTIL_REMEDIATION == "Ensure scutil is available and run with appropriate permissions."

\* a failed `route` answered as an unset route, without error nor remediation
MacRouteNotCheckedSilent(evidence) ==
    [returned |-> TRUE, not_checked |-> TRUE, error |-> Nothing, remediation |-> None,
     gateway |-> Nothing, interface |-> Nothing, flags |-> Nothing,
     evidence |-> evidence]

\* lines 18-27
MacRouteNotChecked(evidence) ==
    [returned |-> TRUE, not_checked |-> TRUE,
     error |-> Some(Or(evidence.stderr, Or(evidence.stdout, <<"route command failed">>))),
     remediation |-> MAC_ROUTE_REMEDIATION,
     gateway |-> Nothing, interface |-> Nothing, flags |-> Nothing,
     evidence |-> evidence]

\* lines 34-41: the value of the last line that starts with the prefix, the
\* prefix being one word that ends with the first colon of the line
RECURSIVE MacRouteField(_, _, _)
MacRouteField(lines, k, prefix) ==
    IF k = 0 THEN Nothing
    ELSE IF lines[k] # <<>> /\ HasPrefix(lines[k][1], prefix) THEN Some(Tail(lines[k]))
    ELSE MacRouteField(lines, k - 1, prefix)

\* lines 43-50
MacRouteFact(stdout, evidence) ==
    LET lines == SplitLines(stdout)
    IN  [returned |-> TRUE, destination |-> "default",
         not_checked |-> FALSE, error |-> Nothing, remediation |-> None,
         gateway |-> MacRouteField(lines, Len(lines), "gateway:"),
         interface |-> MacRouteField(lines, Len(lines), "interface:"),
         flags |-> MacRouteField(lines, Len(lines), "flags:"),
         evidence |-> evidence]

\* lines 67-75
MacDnsNotChecked(evidence) ==
    [returned |-> TRUE, not_checked |-> TRUE,
     error |-> Some(Or(evidence.stderr, Or(evidence.stdout, <<"scutil --dns failed">>))),
     remediation |-> SCUTIL_REMEDIATION,
     nameservers |-> <<>>, search_domains |-> <<>>,
     evidence |-> evidence]

\* `":" in s`; in the texts of scutil the first colon of a line is a word of
\* its own
HasColon(s) == Contains(s, ":")

\* `s.split(":", 1)[1].strip()`
AfterColon(s) == SubSeq(s, Index(s, ":") + 1, Len(s))

\* `s.split(":", 1)[0].strip()`
BeforeColon(s) == SubSeq(s, 1, Index(s, ":") - 1)

\* lines 80-95: a value is the whole rest of its line
RECURSIVE ScutilDnsScan(_, _, _, _)
ScutilDnsScan(lines, k, nameservers, search_domains) ==
    IF k > Len(lines) THEN <<nameservers, search_domains>>
    ELSE LET s == lines[k]
         IN  IF s # <<>> /\ HasPrefix(s[1], "nameserver[") /\ HasColon(s)
             THEN ScutilDnsScan(lines, k + 1,
                      IF AfterColon(s) # <<>> THEN AppendNew(nameservers, <<AfterColon(s)>>)
                      ELSE nameservers, search_domains)
             ELSE IF Len(s) >= 2 /\ s[1] = "search" /\ HasPrefix(s[2], "domain[") /\ HasColon(s)
             THEN ScutilDnsScan(lines, k + 1, nameservers,
                      IF AfterColon(s) # <<>> THEN AppendNew(search_domains, <<AfterColon(s)>>)
                      ELSE search_domains)
             ELSE ScutilDnsScan(lines, k + 1, nameservers, search_domains)

\* lines 97-104
MacDnsFact(stdout, evidence) ==
    LET parsed == ScutilDnsScan(SplitLines(stdout), 1, <<>>, <<>>)
    IN  [returned |-> TRUE, nameservers |-> parsed[1], search_domains |-> parsed[2],
         not_checked |-> FALSE, error |-> Nothing, remediation |-> None,
         evidence |-> evidence]

MacRouteLines ==
    {<<"gateway:", "192.168.1.1">>, <<"gateway:", "10.0.0.1">>, <<"gateway:">>,
     <<"interface:", "en0">>, <<"flags:", "<UP,GATEWAY,DONE>">>,
     <<"route", "to:", "default">>}
MacRouteOuts == TextsUpTo(MacRouteLines, MaxMacRouteLines)
MacRouteProcs == Succeeding(MacRouteOuts) \cup Failing("route") \cup Aborted

ScutilDnsLines ==
    {<<key, ":", v>> : key \in {"nameserver[0]", "nameserver[1]"}, v \in DnsVals}
        \cup {<<"search", "domain[0]", ":", v>> : v \in DnsVals}
        \cup {<<"nameserver[0]", ":">>, <<"nameserver[0]">>, <<"domain", ":", "corp.lan">>,
              <<"resolver", "#1">>}
ScutilDnsOuts == TextsUpTo(ScutilDnsLines, MaxScutilDnsLines)
ScutilDnsProcs == Succeeding(ScutilDnsOuts) \cup Failing("scutil") \cup Aborted

InvokeMacDefaultRoute ==
    /\ fn = "idle"
    /\ fn' = "get_mac_default_route"
    /\ pc' = "route"
    /\ UNCHANGED <<calls, lv, result, raised, fs>>

\* lines 9-50
MacDefaultRoute ==
    /\ fn = "get_mac_default_route" /\ pc = "route"
    /\ \E proc \in MacRouteProcs :
         LET r == mac_run_cmd(CMD_MAC_ROUTE, proc)
         IN  /\ calls' = Append(calls, Call(CMD_MAC_ROUTE, proc, r))
             /\ IF r.type = "raise"
                THEN /\ raised' = r.exc
                     /\ UNCHANGED result
                ELSE LET evidence == MacEvidence("route -n get default", r.rc, r.stdout, r.stderr)
                     IN  /\ result' = IF r.rc # 0 THEN MacRouteNotChecked(evidence)
                                      ELSE MacRouteFact(r.stdout, evidence)
                         /\ UNCHANGED raised
    /\ pc' = "done"
    /\ UNCHANGED <<fn, lv, fs>>

InvokeMacDns ==
    /\ fn = "idle"
    /\ fn' = "get_mac_dns_config"
    /\ pc' = "scutil"
    /\ UNCHANGED <<calls, lv, result, raised, fs>>

\* lines 58-104
MacDnsConfig ==
    /\ fn = "get_mac_dns_config" /\ pc = "scutil"
    /\ \E proc \in ScutilDnsProcs :
         LET r == mac_run_cmd(CMD_SCUTIL_DNS, proc)
         IN  /\ calls' = Append(calls, Call(CMD_SCUTIL_DNS, proc, r))
             /\ IF r.type = "raise"
                THEN /\ raised' = r.exc
                     /\ UNCHANGED result
                ELSE LET evidence == MacEvidence("scutil --dns", r.rc, r.stdout, r.stderr)
                     IN  /\ result' = IF r.rc # 0 THEN MacDnsNotChecked(evidence)
                                      ELSE MacDnsFact(r.stdout, evidence)
                         /\ UNCHANGED raised
    /\ pc' = "done"
    /\ UNCHANGED <<fn, lv, fs>>

(* collectors/mac/mac_network.py: get_mac_proxy_config *)

NoEndpoint == [enabled |-> <<>>, host |-> Nothing, port |-> <<>>]

\* lines 126-137
MacProxyNotChecked(evidence) ==
    [returned |-> TRUE, not_checked |-> TRUE,
     error |-> Some(Or(evidence.stderr, Or(evidence.stdout, <<"scutil --proxy failed">>))),
     remediation |-> SCUTIL_REMEDIATION,
     http |-> NoEndpoint, https |-> NoEndpoint, socks |-> NoEndpoint,
     pac |-> [enabled |-> <<>>, url |-> Nothing],
     exceptions |-> <<>>,
     evidence |-> evidence]

\* lines 140-152 and kv.get(key): the value of the last line whose text
\* before the first colon is the key
RECURSIVE KvGet(_, _, _)
KvGet(lines, k, key) ==
    IF k = 0 THEN Nothing
    ELSE IF HasColon(lines[k]) /\ BeforeColon(lines[k]) = <<key>>
    THEN Some(AfterColon(lines[k]))
    ELSE KvGet(lines, k - 1, key)

\* lines 155-162
_bool_from_01(v) ==
    IF v = Nothing THEN <<>>
    ELSE IF v[1] = <<"1">> THEN <<TRUE>>
    ELSE IF v[1] = <<"0">> THEN <<FALSE>>
    ELSE <<>>

\* int() of one word
IntOfTok(tok) ==
    CASE tok = "0" -> <<0>>
      [] tok = "1" -> <<1>>
      [] tok = "8080" -> <<8080>>
      [] OTHER -> <<>>

\* lines 164-170
_int_or_none(v) ==
    IF v = Nothing THEN <<>>
    ELSE IF Len(v[1]) = 1 THEN IntOfTok(v[1][1])
    ELSE <<>>

\* lines 185-222
RECURSIVE ExceptionsScan(_, _, _, _)
ExceptionsScan(lines, k, exceptions, in_exceptions_block) ==
    IF k > Len(lines) THEN exceptions
    ELSE LET s == lines[k]
         IN  IF s # <<>> /\ HasPrefix(s[1], "ExceptionsList")
             THEN ExceptionsScan(lines, k + 1,
                      IF HasColon(s) /\ AfterColon(s) # <<>>
                                     /\ ~HasPrefix(AfterColon(s)[1], "<array>")
                      THEN Append(exceptions, AfterColon(s)) ELSE exceptions,
                      TRUE)
             ELSE IF in_exceptions_block /\ s # <<>> /\ HasPrefix(s[1], "}")
             THEN ExceptionsScan(lines, k + 1, exceptions, FALSE)
             ELSE IF in_exceptions_block /\ HasColon(s) /\ AfterColon(s) # <<>>
             THEN ExceptionsScan(lines, k + 1, AppendNew(exceptions, <<AfterColon(s)>>), TRUE)
             ELSE ExceptionsScan(lines, k + 1, exceptions, in_exceptions_block)

\* lines 173-178 and 224-249
MacProxyFact(stdout, evidence) ==
    LET lines == SplitLines(stdout)
        get(key) == KvGet(lines, Len(lines), key)
    IN  [returned |-> TRUE,
         http |-> [enabled |-> _bool_from_01(get("HTTPEnable")),
                   host |-> get("HTTPProxy"),
                   port |-> _int_or_none(get("HTTPPort"))],
         https |-> [enabled |-> _bool_from_01(get("HTTPSEnable")),
                    host |-> get("HTTPSProxy"),
                    port |-> _int_or_none(get("HTTPSPort"))],
         socks |-> [enabled |-> _bool_from_01(get("SOCKSEnable")),
                    host |-> get("SOCKSProxy"),
                    port |-> _int_or_none(get("SOCKSPort"))],
         pac |-> [enabled |-> _bool_from_01(get("ProxyAutoConfigEnable")),
                  url |-> get("ProxyAutoConfigURLString")],
         exceptions |-> ExceptionsScan(lines, 1, <<>>, FALSE),
         not_checked |-> FALSE, error |-> Nothing, remediation |-> None,
         evidence |-> evidence]

ScutilProxyLines ==
    {<<"<dictionary>", "{">>, <<"}">>,
     <<"HTTPEnable", ":", "1">>, <<"HTTPEnable", ":", "0">>, <<"HTTPEnable", ":", "yes">>,
     <<"HTTPProxy", ":", "proxy.lan">>,
     <<"HTTPPort", ":", "8080">>, <<"HTTPPort", ":", "http">>,
     <<"HTTPSEnable", ":", "1">>, <<"SOCKSPort", ":">>,
     <<"ProxyAutoConfigEnable", ":", "1">>,
     <<"ProxyAutoConfigURLString", ":", "http://pac.lan/proxy.pac">>,
     <<"ExceptionsList", ":", "<array>", "{">>, <<"ExceptionsList", ":", "*.local">>,
     <<"0", ":", "*.local">>, <<"1", ":", "169.254/16">>}
ScutilProxyOuts == TextsUpTo(ScutilProxyLines, MaxScutilProxyLines)
ScutilProxyProcs == Succeeding(ScutilProxyOuts) \cup Failing("scutil") \cup Aborted

InvokeMacProxy ==
    /\ fn = "idle"
    /\ fn' = "get_mac_proxy_config"
    /\ pc' = "scutil"
    /\ UNCHANGED <<calls, lv, result, raised, fs>>

\* lines 117-249
MacProxyConfig ==
    /\ fn = "get_mac_proxy_config" /\ pc = "scutil"
    /\ \E proc \in ScutilProxyProcs :
         LET r == mac_run_cmd(CMD_SCUTIL_PROXY, proc)
         IN  /\ calls' = Append(calls, Call(CMD_SCUTIL_PROXY, proc, r))
             /\ IF r.type = "raise"
                THEN /\ raised' = r.exc
                     /\ UNCHANGED result
                ELSE LET evidence == MacEvidence("scutil --proxy", r.rc, r.stdout, r.stderr)
                     IN  /\ result' = IF r.rc # 0 THEN MacProxyNotChecked(evidence)
                                      ELSE MacProxyFact(r.stdout, evidence)
                         /\ UNCHANGED raised
    /\ pc' = "done"
    /\ UNCHANGED <<fn, lv, fs>>

NextMacNetwork ==
    \/ InvokeMacDefaultRoute
    \/ MacDefaultRoute
    \/ InvokeMacDns
    \/ MacDnsConfig
    \/ InvokeMacProxy
    \/ MacProxyConfig

----------------------------------------------------------------------------
(* shared/network.py: get_listening_ports *)

\* lines 4-37
_family_to_label(fam) ==
    CASE fam = "AF_INET" -> "IPv4"
      [] fam = "AF_INET6" -> "IPv6"
      [] fam \in {"AF_LINK", "AF_PACKET"} -> "MAC"
      [] OTHER -> fam

\* lines 38-55: laddr is <<>> or <<ip, port>>
_laddr_ip_port(laddr) == IF laddr = <<>> THEN <<None, <<>>>> ELSE <<laddr[1], <<laddr[2]>>>>

\* one socket as psutil.net_connections gives it; name is what
\* psutil.Process(pid).name() gives for its pid, None when that call raises
Conn(laddr, family, type, status, pid, name) ==
    [laddr |-> laddr, family |-> family, type |-> type, status |-> status,
     pid |-> pid, name |-> name]

\* lines 218-224 and 229-235
PortEntry(c) ==
    [ip |-> _laddr_ip_port(c.laddr)[1], port |-> _laddr_ip_port(c.laddr)[2],
     family |-> _family_to_label(c.family), pid |-> c.pid,
     process_name |-> IF c.pid # <<>> THEN c.name ELSE None]

IsTcpListener(c) == c.type = "SOCK_STREAM" /\ c.status = "LISTEN"

\* lines 200-235: the sockets of `type` among conns, those without a local
\* port left out; a TCP listener never counts as a UDP socket
RECURSIVE PortScan(_, _)
PortScan(conns, tcp) ==
    IF conns = <<>> THEN <<>>
    ELSE LET c == Head(conns)
             keep == /\ _laddr_ip_port(c.laddr)[2] # <<>>
                     /\ IF tcp THEN IsTcpListener(c)
                        ELSE ~IsTcpListener(c) /\ c.type = "SOCK_DGRAM"
         IN  (IF keep THEN <<PortEntry(c)>> ELSE <<>>) \o PortScan(Tail(conns), tcp)

ACCESS_REMEDIATION ==
    "Run the audit with elevated privileges (sudo/root) to enumerate system-wide listening sockets."
OSERROR_REMEDIATION ==
    "Could not enumerate sockets due to an OS error. Try running as sudo/root and re-test."

\* lines 180-197
PortsNotChecked(e) ==
    [returned |-> TRUE, tcp |-> <<>>, udp |-> <<>>, not_checked |-> TRUE,
     error |-> Some(FormatExc(e)),
     remediation |-> IF e.type \in {"AccessDenied", "PermissionError"}
                     THEN ACCESS_REMEDIATION ELSE OSERROR_REMEDIATION]

\* lines 237-243
PortsFact(conns) ==
    [returned |-> TRUE, tcp |-> PortScan(conns, TRUE), udp |-> PortScan(conns, FALSE),
     not_checked |-> FALSE, error |-> Nothing, remediation |-> None]

Conns ==
    {Conn(<<"0.0.0.0", 22>>, "AF_INET", "SOCK_STREAM", "LISTEN", <<1>>, "sshd"),
     Conn(<<"::", 443>>, "AF_INET6", "SOCK_STREAM", "LISTEN", <<2>>, None),
     Conn(<<"10.0.0.5", 50000>>, "AF_INET", "SOCK_STREAM", "ESTABLISHED", <<3>>, "curl"),
     Conn(<<"0.0.0.0", 5353>>, "AF_INET", "SOCK_DGRAM", "NONE", <<>>, None),
     Conn(<<>>, "AF_INET6", "SOCK_DGRAM", "NONE", <<4>>, "avahi")}

\* what psutil.net_connections(kind="inet") can do
NetConnections ==
    {[kind |-> "conns", conns |-> cs] : cs \in SeqsUpTo(Conns, MaxConns)}
        \cup {ReadRaises("AccessDenied", <<"(pid=1)">>),
              ReadRaises("PermissionError", <<"[Errno 1] Operation not permitted">>),
              ReadRaises("OSError", <<"[Errno 5] Input/output error">>)}

InvokeListeningPorts ==
    /\ fn = "idle"
    /\ fn' = "get_listening_ports"
    /\ pc' = "net_connections"
    /\ UNCHANGED <<calls, lv, result, raised, fs>>

\* lines 175-243: no command is run; what net_connections gave stays in the
\* locals
ListeningPorts ==
    /\ fn = "get_listening_ports" /\ pc = "net_connections"
    /\ \E got \in NetConnections :
         /\ lv' = [got |-> got]
         /\ result' = IF got.kind = "raise" THEN PortsNotChecked(got)
                      ELSE PortsFact(got.conns)
    /\ pc' = "done"
    /\ UNCHANGED <<fn, calls, raised, fs>>

NextShared ==
    \/ InvokeListeningPorts
    \/ ListeningPorts

----------------------------------------------------------------------------
(* core/report.py: write_json_report *)

(* The content of a file is the sequence of the pieces written to it; a     *)
(* piece is what one flush of the buffered writer carries to the file.      *)

\* the file at out_path: it does not exist, or has this content
NoFile == Nothing
FileWith(content) == Some(content)

\* what the path held before the call, when it held a report
OLD_REPORT == <<"old", "report">>

PieceToks == {"meta", "checks"}

\* the serialised documents: one to MaxPieces pieces
Documents == SeqsUpTo(PieceToks, MaxPieces) \ {<<>>}

\* the `report` argument: a dataclass instance or not (main passes a dict);
\* doc is what json.dump would write for it, bad the piece json.dump cannot
\* encode (0 when every value is serialisable)
ReportArg(dataclass, doc, bad) == [dataclass |-> dataclass, doc |-> doc, bad |-> bad]
Reports ==
    {ReportArg(FALSE, <<>>, 0)}
        \cup UNION {{ReportArg(TRUE, doc, bad) : bad \in 0..Len(doc)} : doc \in Documents}

\* the parent of out_path is a directory, is missing, or is a regular file
FileSystems ==
    {[parent |-> "dir", file |-> NoFile], [parent |-> "dir", file |-> FileWith(OLD_REPORT)],
     [parent |-> "absent", file |-> NoFile], [parent |-> "file", file |-> NoFile]}

\* the path given by the caller, returned as a Path
OUT_PATH == "out_path"

\* line 5: the call, its argument and the path as the call finds it
InvokeWriteReport ==
    /\ fn = "idle"
    /\ fn' = "write_json_report"
    /\ pc' = "mkdir"
    /\ \E report \in Reports, before \in FileSystems :
         /\ lv' = [report |-> report, before |-> before.file, written |-> 0]
         /\ fs' = before
    /\ UNCHANGED <<calls, result, raised>>

\* line 7: out_path.parent.mkdir(parents=True, exist_ok=True)
ReportMkdir ==
    /\ fn = "write_json_report" /\ pc = "mkdir"
    /\ \/ /\ fs.parent = "dir"
          /\ pc' = "open"
          /\ UNCHANGED <<fs, raised>>
       \/ /\ fs.parent = "absent"
          /\ \/ /\ fs' = [fs EXCEPT !.parent = "dir"]
                /\ pc' = "open"
                /\ UNCHANGED raised
             \/ /\ raised' = "PermissionError"
                /\ pc' = "done"
                /\ UNCHANGED fs
       \/ /\ fs.parent = "file"
          /\ raised' = "FileExistsError"
          /\ pc' = "done"
          /\ UNCHANGED fs
    /\ UNCHANGED <<fn, calls, lv, result>>

\* line 9: out_path.open("w", encoding="utf-8"); mode "w" creates the file
\* or truncates it to nothing
ReportOpen ==
    /\ fn = "write_json_report" /\ pc = "open"
    /\ \/ /\ fs' = [fs EXCEPT !.file = FileWith(<<>>)]
          /\ pc' = "asdict"
          /\ UNCHANGED raised
       \/ /\ raised' = "PermissionError"
          /\ pc' = "done"
          /\ UNCHANGED fs
    /\ UNCHANGED <<fn, calls, lv, result>>

\* line 10: asdict(report) raises TypeError when report is not a dataclass
\* instance; the with block closes the file on the way out
ReportAsdict ==
    /\ fn = "write_json_report" /\ pc = "asdict"
    /\ IF lv.report.dataclass
       THEN pc' = "dump" /\ UNCHANGED raised
       ELSE raised' = "TypeError" /\ pc' = "done"
    /\ UNCHANGED <<fn, calls, lv, result, fs>>

\* line 10: json.dump writes the document piece by piece; it raises
\* TypeError when it meets a value it cannot encode, a write can fail
\* (OSError) or be interrupted (KeyboardInterrupt); what was written stays
ReportDump ==
    /\ fn = "write_json_report" /\ pc = "dump"
    /\ lv.written < Len(lv.report.doc)
    /\ LET k == lv.written + 1
       IN  IF lv.report.bad = k
           THEN /\ raised' = "TypeError"
                /\ pc' = "done"
                /\ UNCHANGED <<lv, fs>>
           ELSE \/ /\ fs' = [fs EXCEPT !.file = FileWith(Append(fs.file[1], lv.report.doc[k]))]
                   /\ lv' = [lv EXCEPT !.written = k]
                   /\ UNCHANGED <<pc, raised>>
                \/ /\ \E exc \in {"OSError", "KeyboardInterrupt"} : raised' = exc
                   /\ pc' = "done"
                   /\ UNCHANGED <<lv, fs>>
    /\ UNCHANGED <<fn, calls, result>>

\* lines 10-12: the document is written, the file closed, the path returned
ReportReturn ==
    /\ fn = "write_json_report" /\ pc = "dump"
    /\ lv.written = Len(lv.report.doc)
    /\ result' = [returned |-> TRUE, path |-> OUT_PATH]
    /\ pc' = "done"
    /\ UNCHANGED <<fn, calls, lv, raised, fs>>

NextReport ==
    \/ InvokeWriteReport
    \/ ReportMkdir
    \/ ReportOpen
    \/ ReportAsdict
    \/ ReportDump
    \/ ReportReturn

Next ==
    \/ NextLinuxRoute \/ NextMacChecks \/ NextLinuxDns
    \/ NextLinuxProxy \/ NextMacNetwork \/ NextShared
    \/ NextReport

----------------------------------------------------------------------------
(* Specifications *)

Init ==
    /\ fn = "idle"
    /\ pc = "idle"
    /\ calls = <<>>
    /\ lv = NoLocals
    /\ result = NoResult
    /\ raised = None
    /\ fs = [parent |-> "absent", file |-> NoFile]

SpecLinuxRoute == Init /\ [][NextLinuxRoute]_vars

SpecMacChecks == Init /\ [][NextMacChecks]_vars

SpecLinuxDns == Init /\ [][NextLinuxDns]_vars

SpecLinuxProxy == Init /\ [][NextLinuxProxy]_vars

SpecMacNetwork == Init /\ [][NextMacNetwork]_vars

SpecShared == Init /\ [][NextShared]_vars

SpecReport == Init /\ [][NextReport]_vars

Spec == Init /\ [][Next]_vars

----------------------------------------------------------------------------
(* Properties *)

\* the invocation has ended by returning a value
Returned == pc = "done" /\ result.returned

\* the i-th command of the invocation ran to an exit
Exited(i) == i <= Len(calls) /\ calls[i].proc.kind = "exit"

\* the i-th command failed: non-zero exit, or nothing on stdout
FailedProbe(i) ==
    /\ Exited(i)
    /\ (calls[i].ret.rc # 0 \/ calls[i].ret.stdout = <<>>)

\* the Evidence record of the i-th command
EvidenceOf(i) ==
    [cmd |-> calls[i].cmd, rc |-> calls[i].ret.rc,
     stdout |-> calls[i].ret.stdout, stderr |-> calls[i].ret.stderr]

InLinuxRoute == fn = "get_linux_default_route"
InFirewall == fn = "check_mac_firewall_status"
InFileVault == fn = "check_mac_filevault_status"

\* C1: get_linux_default_route: once `ip route show default` has failed
\* (non-zero exit or empty stdout) the invocation does not end before
\* `route -n` was attempted, nor, when that failed too, before `netstat -rn`
\* was; a not_checked result is returned only after the three commands were
\* run in that order, and its evidence holds the record of each of them.
C1_FallbackBeforeNotChecked ==
    (InLinuxRoute /\ pc = "done") =>
        /\ FailedProbe(1) => (Len(calls) >= 2 /\ calls[2].cmd = CMD_ROUTE)
        /\ (FailedProbe(1) /\ FailedProbe(2)) =>
               (Len(calls) >= 3 /\ calls[3].cmd = CMD_NETSTAT)
        /\ (result.returned /\ result.not_checked) =>
               /\ [i \in DOMAIN calls |-> calls[i].cmd]
                      = <<CMD_IP, CMD_ROUTE, CMD_NETSTAT>>
               /\ FailedProbe(1) /\ FailedProbe(2) /\ FailedProbe(3)
               /\ result.evidence = [primary |-> EvidenceOf(1),
                                     fallback_route |-> EvidenceOf(2),
                                     fallback_netstat |-> EvidenceOf(3)]

\* C1 witness: the three commands failed and not_checked was returned
C1_Witness ==
    /\ InLinuxRoute /\ Returned /\ result.not_checked
    /\ Len(calls) = 3
    /\ calls[1].ret.rc = 0 /\ calls[1].ret.stdout = <<>>
    /\ calls[2].ret.rc # 0
    /\ calls[3].ret.rc # 0

\* the first non-empty line of a text
FirstLine(t) ==
    LET lines == SplitLines(t)
    IN  IF \E k \in DOMAIN lines : lines[k] # <<>>
        THEN lines[CHOOSE k \in DOMAIN lines :
                       lines[k] # <<>> /\ \A j \in 1..(k - 1) : lines[j] = <<>>]
        ELSE <<>>

\* tokens that are values (an address, an interface name), not keywords
IpValues == IpToks \ {"via", "dev", NL}

\* `via X dev Y` stands at position i of the line
ViaDevAt(line, i, X, Y) ==
    /\ i + 3 <= Len(line)
    /\ line[i] = "via" /\ line[i + 1] = X
    /\ line[i + 2] = "dev" /\ line[i + 3] = Y

\* `ip route show default` exited 0 with some output, and the function returned
IpAnswered ==
    /\ InLinuxRoute /\ Returned
    /\ Exited(1) /\ calls[1].ret.rc = 0 /\ calls[1].ret.stdout # <<>>

\* C2 as stated: whenever the first non-empty line of the `ip route show
\* default` output (exit 0) contains `via X dev Y`, anywhere in the line, the
\* result has gateway=X, interface=Y and not_checked=False.
C2_ViaDevAnywhere ==
    IpAnswered =>
        \A X \in IpValues, Y \in IpValues :
            \A i \in DOMAIN FirstLine(calls[1].ret.stdout) :
                ViaDevAt(FirstLine(calls[1].ret.stdout), i, X, Y) =>
                    /\ result.gateway = X
                    /\ result.interface = Y
                    /\ result.not_checked = FALSE

\* C2 amended: whenever the first non-empty line of the `ip route show
\* default` output (exit 0) contains `via X dev Y` and no `via` or `dev`
\* token stands before it in that line, the result has gateway=X,
\* interface=Y and not_checked=False, whatever tokens follow.
C2_FirstViaDev ==
    IpAnswered =>
        \A X \in IpValues, Y \in IpValues :
            \A i \in DOMAIN FirstLine(calls[1].ret.stdout) :
                LET line == FirstLine(calls[1].ret.stdout)
                IN  (/\ ViaDevAt(line, i, X, Y)
                     /\ \A j \in 1..(i - 1) : line[j] \notin {"via", "dev"}) =>
                        /\ result.gateway = X
                        /\ result.interface = Y
                        /\ result.not_checked = FALSE

\* C2 witness: `<value> via X dev Y` followed by a further keyword
C2_Witness ==
    /\ IpAnswered
    /\ LET line == FirstLine(calls[1].ret.stdout)
       IN  /\ Len(line) = 6
           /\ ViaDevAt(line, 2, "10.0.0.1", "eth0")
           /\ line[1] \in IpValues
           /\ line[6] = "via"
    /\ result.gateway = "10.0.0.1" /\ result.interface = "eth0"

\* C3: run_cmd never raises: every call returns an (exit code, stdout,
\* stderr) triple, and a process that timed out is reported as a non-zero
\* exit code with a message on stderr.
C3_RunCmdNeverRaises ==
    \A i \in DOMAIN calls :
        /\ calls[i].ret.type = "return"
        /\ calls[i].proc.kind = "timeout" =>
               (calls[i].ret.rc # 0 /\ calls[i].ret.stderr # <<>>)

\* C4: every invocation of a resolver or check ends by returning a result,
\* whatever the probes did: none ends in an exception, and a probe that timed
\* out or could not be started leads where a non-zero exit leads.
C4_EveryInvocationReturns ==
    /\ raised = None
    /\ pc = "done" => result.returned

\* `socketfilterfw --getglobalstate` exited 0 and the check returned
GlobalStateAnswered ==
    /\ InFirewall /\ Returned
    /\ Exited(1) /\ calls[1].ret.rc = 0

\* status FAIL, factor 0.0, one finding, HIGH
IsFirewallFail ==
    /\ result.status = "FAIL"
    /\ result.score_factor = 0
    /\ Len(result.findings) = 1
    /\ result.findings[1].severity = "HIGH"

\* C5 as stated: check_mac_firewall_status: whenever the global-state probe
\* exited 0 and its text contains `State = 0`, the result is FAIL with
\* score_factor 0.0 and exactly one finding, HIGH.
C5_State0Fails ==
    (GlobalStateAnswered /\ Contains(calls[1].ret.stdout, "State = 0")) =>
        IsFirewallFail

\* C5 amended: check_mac_firewall_status: whenever the global-state probe
\* exited 0 and its text contains `State = 0` and does not contain
\* `State = 1`, the result is FAIL with score_factor 0.0 and exactly one
\* finding, HIGH, whatever the stealth-mode and block-all probes gave.
C5_State0WithoutState1Fails ==
    (/\ GlobalStateAnswered
     /\ Contains(calls[1].ret.stdout, "State = 0")
     /\ ~Contains(calls[1].ret.stdout, "State = 1")) =>
        IsFirewallFail

\* C5 witness: State = 0, stealth probe failed, block-all reported enabled
C5_Witness ==
    /\ GlobalStateAnswered
    /\ calls[1].ret.stdout = <<"Firewall", "State = 0">>
    /\ calls[2].ret.rc # 0
    /\ calls[3].ret.rc = 0 /\ calls[3].ret.stdout = <<"enabled">>
    /\ IsFirewallFail

\* C6: check_mac_firewall_status: whenever the global-state probe exited
\* non-zero, the result is NOT_CHECKED with score_factor 0.6 and exactly one
\* finding, MEDIUM, that reports the exit code and the output of the probe
\* and carries a remediation; no other command was run.
C6_ProbeFailureNotChecked ==
    (InFirewall /\ Returned /\ Exited(1) /\ calls[1].ret.rc # 0) =>
        /\ result.status = "NOT_CHECKED"
        /\ result.score_factor = 6
        /\ Len(result.findings) = 1
        /\ result.findings[1].severity = "MEDIUM"
        /\ result.findings[1].detail.rc = calls[1].ret.rc
        /\ result.findings[1].detail.output
               = (IF calls[1].ret.stderr # <<>> THEN calls[1].ret.stderr
                  ELSE calls[1].ret.stdout)
        /\ result.findings[1].remediation # ""
        /\ Len(calls) = 1

\* C6 witness: the probe exited non-zero with a message on stderr
C6_Witness ==
    /\ InFirewall /\ Returned
    /\ calls[1].ret.rc # 0 /\ calls[1].ret.stderr # <<>>
    /\ result.status = "NOT_CHECKED"

\* C7: every AuditResult of check_mac_firewall_status and
\* check_mac_filevault_status has score_factor 0.6 if its status is
\* NOT_CHECKED, 1.0 if PASS, 0.0 if FAIL, 0.5 if WARN, and has one of these
\* four statuses.
C7_ScoreFactorByStatus ==
    ((InFirewall \/ InFileVault) /\ Returned) =>
        /\ result.status \in {"PASS", "WARN", "FAIL", "NOT_CHECKED"}
        /\ result.status = "NOT_CHECKED" <=> result.score_factor = 6
        /\ result.status = "PASS" <=> result.score_factor = 10
        /\ result.status = "FAIL" <=> result.score_factor = 0
        /\ result.status = "WARN" <=> result.score_factor = 5

\* C7 witness: FileVault could not be probed
C7_Witness ==
    /\ InFileVault /\ Returned
    /\ calls[1].ret.rc # 0
    /\ result.status = "NOT_CHECKED" /\ result.score_factor = 6

\* the stealth-mode probe exited 0 and said disabled, and not enabled
StealthOff ==
    /\ Exited(2) /\ calls[2].ret.rc = 0
    /\ Contains(Lower(calls[2].ret.stdout), "disabled")
    /\ ~Contains(Lower(calls[2].ret.stdout), "enabled")

\* C8: check_mac_firewall_status, global-state probe exited 0 with
\* `State = 1`: PASS, 1.0, no finding, unless stealth mode is off, and then
\* WARN, 0.5, exactly one finding, LOW; evidence.parsed.global_state is 1 in
\* both cases.
C8_EnabledPassOrStealthWarn ==
    (GlobalStateAnswered /\ Contains(calls[1].ret.stdout, "State = 1")) =>
        /\ result.evidence.parsed.global_state = <<1>>
        /\ StealthOff =>
               /\ result.status = "WARN"
               /\ result.score_factor = 5
               /\ Len(result.findings) = 1
               /\ result.findings[1].severity = "LOW"
        /\ ~StealthOff =>
               /\ result.status = "PASS"
               /\ result.score_factor = 10
               /\ result.findings = <<>>

\* C8 witness: firewall on, stealth mode reported "Disabled"
C8_Witness ==
    /\ GlobalStateAnswered
    /\ Contains(calls[1].ret.stdout, "State = 1")
    /\ calls[2].ret.stdout = <<"mode", "Disabled">>
    /\ StealthOff
    /\ result.status = "WARN"

\* what a quoted text quotes: the quotes removed, the escapes undone
Unquote(q) ==
    [i \in 1..(Len(q) - 2) |-> IF q[i + 1] = "\\n" THEN NL ELSE q[i + 1]]

\* WARN, 0.5, one finding, LOW, whose detail quotes `out`
WarnsQuoting(out) ==
    /\ result.status = "WARN"
    /\ result.score_factor = 5
    /\ Len(result.findings) = 1
    /\ result.findings[1].severity = "LOW"
    /\ Len(result.findings[1].detail.output) = Len(out) + 2
    /\ Unquote(result.findings[1].detail.output) = out

\* C9: when the probe exits 0 and its output has no recognized phrase
\* (firewall: neither `State = 0` nor `State = 1`; FileVault: neither
\* `filevault is on` nor `filevault is off`, in any case), the result is
\* WARN, 0.5, with exactly one finding, LOW, whose detail quotes the whole
\* output of the probe.
C9_UnrecognizedOutputWarns ==
    /\ (/\ GlobalStateAnswered
        /\ ~Contains(calls[1].ret.stdout, "State = 0")
        /\ ~Contains(calls[1].ret.stdout, "State = 1")) =>
           WarnsQuoting(calls[1].ret.stdout)
    /\ (/\ InFileVault /\ Returned /\ calls[1].ret.rc = 0
        /\ ~Contains(Lower(calls[1].ret.stdout), "filevault is on")
        /\ ~Contains(Lower(calls[1].ret.stdout), "filevault is off")) =>
           WarnsQuoting(calls[1].ret.stdout)

\* C9 witness: FileVault printed two lines, none recognized
C9_Witness ==
    /\ InFileVault /\ Returned /\ calls[1].ret.rc = 0
    /\ calls[1].ret.stdout
           = <<"Decryption in progress", NL, "Decryption in progress">>
    /\ WarnsQuoting(calls[1].ret.stdout)

FdeSaysOn == Contains(Lower(calls[1].ret.stdout), "filevault is on")
FdeSaysOff == Contains(Lower(calls[1].ret.stdout), "filevault is off")

FileVaultIs(status, factor, severities) ==
    /\ result.status = status
    /\ result.score_factor = factor
    /\ [i \in DOMAIN result.findings |-> result.findings[i].severity] = severities

\* C10 as stated: check_mac_filevault_status runs one probe and returns one
\* AuditResult: NOT_CHECKED (0.6, one MEDIUM finding) if rc # 0; FAIL (0.0,
\* one CRITICAL finding) if rc = 0 and the output has `filevault is off`; PASS
\* (1.0, no finding) if rc = 0 and the output has `filevault is on`; WARN for
\* any other output; the status is one of the four.
C10_FourStateClassifier ==
    (InFileVault /\ Returned) =>
        /\ Len(calls) = 1
        /\ result.status \in {"PASS", "WARN", "FAIL", "NOT_CHECKED"}
        /\ calls[1].ret.rc # 0 => FileVaultIs("NOT_CHECKED", 6, <<"MEDIUM">>)
        /\ (calls[1].ret.rc = 0 /\ FdeSaysOff) => FileVaultIs("FAIL", 0, <<"CRITICAL">>)
        /\ (calls[1].ret.rc = 0 /\ FdeSaysOn) => FileVaultIs("PASS", 10, <<>>)
        /\ (calls[1].ret.rc = 0 /\ ~FdeSaysOn /\ ~FdeSaysOff) => result.status = "WARN"

\* C10 amended: as stated, except that FAIL (0.0, one CRITICAL finding) is
\* the result if rc = 0 and the output has `filevault is off` and does not
\* have `filevault is on`; an output that has both gives PASS.
C10_FourStateClassifierOnFirst ==
    (InFileVault /\ Returned) =>
        /\ Len(calls) = 1
        /\ result.status \in {"PASS", "WARN", "FAIL", "NOT_CHECKED"}
        /\ calls[1].ret.rc # 0 => FileVaultIs("NOT_CHECKED", 6, <<"MEDIUM">>)
        /\ (calls[1].ret.rc = 0 /\ FdeSaysOff /\ ~FdeSaysOn) =>
               FileVaultIs("FAIL", 0, <<"CRITICAL">>)
        /\ (calls[1].ret.rc = 0 /\ FdeSaysOn) => FileVaultIs("PASS", 10, <<>>)
        /\ (calls[1].ret.rc = 0 /\ ~FdeSaysOn /\ ~FdeSaysOff) => result.status = "WARN"

\* C10 witness: `filevault is off` alone gave FAIL
C10_Witness ==
    /\ InFileVault /\ Returned /\ calls[1].ret.rc = 0
    /\ FdeSaysOff /\ ~FdeSaysOn
    /\ FileVaultIs("FAIL", 0, <<"CRITICAL">>)

\* the function invoked is one of the fact resolvers
IsFactResolver ==
    fn \in {"get_linux_default_route", "get_linux_dns_config", "get_linux_proxy_config",
            "get_mac_default_route", "get_mac_dns_config", "get_mac_proxy_config",
            "get_listening_ports"}

\* every typed value field of the result is None or empty
TypedValuesEmpty ==
    CASE fn = "get_linux_default_route" ->
             result.gateway = None /\ result.interface = None
      [] fn = "get_linux_dns_config" ->
             result.source = None /\ result.nameservers = <<>> /\ result.search_domains = <<>>
      [] fn = "get_linux_proxy_config" ->
             /\ result.http_proxy = Nothing /\ result.https_proxy = Nothing
             /\ result.no_proxy = Nothing /\ result.sources = <<>>
      [] fn = "get_mac_default_route" ->
             result.gateway = Nothing /\ result.interface = Nothing /\ result.flags = Nothing
      [] fn = "get_mac_dns_config" ->
             result.nameservers = <<>> /\ result.search_domains = <<>>
      [] fn = "get_mac_proxy_config" ->
             /\ \A side \in {result.http, result.https, result.socks} :
                    side.enabled = <<>> /\ side.host = Nothing /\ side.port = <<>>
             /\ result.pac.enabled = <<>> /\ result.pac.url = Nothing
             /\ result.exceptions = <<>>
      [] fn = "get_listening_ports" ->
             result.tcp = <<>> /\ result.udp = <<>>

\* C11: every result a fact resolver returns with not_checked True has all
\* its typed value fields None or empty; so a result with a typed value has
\* not_checked False.
C11_NotCheckedHasNoValue ==
    (IsFactResolver /\ Returned /\ result.not_checked) => TypedValuesEmpty

\* C11 witness: `scutil --proxy` failed after printing something, and the
\* not_checked result of get_mac_proxy_config was returned
C11_Witness ==
    /\ fn = "get_mac_proxy_config" /\ Returned /\ result.not_checked
    /\ calls[1].ret.stdout # <<>>

\* C12: in every result a fact resolver returns, error is a non-empty string
\* and remediation is set when not_checked is True, and both are None when
\* not_checked is False.
C12_ErrorIffNotChecked ==
    (IsFactResolver /\ Returned) =>
        IF result.not_checked
        THEN /\ result.error # Nothing /\ result.error[1] # <<>>
             /\ result.remediation # None
        ELSE result.error = Nothing /\ result.remediation = None

\* C12 witness: /etc/resolv.conf could not be read and get_linux_dns_config
\* returned not_checked with the error of the read
C12_Witness ==
    /\ fn = "get_linux_dns_config" /\ Returned /\ result.not_checked
    /\ lv.read.kind = "raise"
    /\ result.error = Some(FormatExc(lv.read))

\* the Evidence records the result of get_linux_default_route holds, in order
RouteEvidenceList ==
    IF "cmd" \in DOMAIN result.evidence THEN <<result.evidence>>
    ELSE <<result.evidence.primary, result.evidence.fallback_route,
           result.evidence.fallback_netstat>>

\* C13: the evidence of the result get_linux_default_route returns holds one
\* Evidence record per command that was attempted, in attempt order, the
\* failed attempts included: a result that `route -n` or `netstat -rn`
\* satisfied still holds the record of each earlier command.
C13_EvidenceKeepsFailedAttempts ==
    (InLinuxRoute /\ Returned) =>
        RouteEvidenceList = [i \in DOMAIN calls |-> EvidenceOf(i)]

InLinuxDns == fn = "get_linux_dns_config"

\* the first command exited 0 with some output
FirstProbeSucceeded == Exited(1) /\ ~FailedProbe(1)

\* no line of the resolvectl output is a DNS server or domain line
NoDnsLines(stdout) ==
    \A k \in DOMAIN SplitLines(stdout) :
        \A key \in {KEY_DNS_SERVERS, KEY_DNS_DOMAIN, KEY_DOMAINS, KEY_SEARCH_DOMAINS} :
            ~StartsWith(SplitLines(stdout)[k], key)

\* C14: a probe that succeeds (exit 0, some output) but whose output gives
\* the parser nothing does not end the resolver: after an `ip route show
\* default` output without any `via` and `dev`, get_linux_default_route goes
\* on to `route -n`; after a `resolvectl status` output without any DNS
\* server or domain line, get_linux_dns_config goes on to read
\* /etc/resolv.conf.
C14_InconclusiveParseContinues ==
    /\ (InLinuxRoute /\ pc = "done" /\ FirstProbeSucceeded
            /\ ~Contains(calls[1].ret.stdout, "via")
            /\ ~Contains(calls[1].ret.stdout, "dev"))
           => (Len(calls) >= 2 /\ calls[2].cmd = CMD_ROUTE)
    /\ (InLinuxDns /\ pc = "done" /\ FirstProbeSucceeded
            /\ NoDnsLines(calls[1].ret.stdout))
           => "read" \in DOMAIN lv

\* the result holds at least one meaningful value
SomeValueExtracted ==
    CASE fn = "get_linux_default_route" ->
             result.gateway # None \/ result.interface # None
      [] fn = "get_linux_dns_config" ->
             result.nameservers # <<>> \/ result.search_domains # <<>>
      [] fn = "get_linux_proxy_config" ->
             \/ TruthyOpt(result.http_proxy) \/ TruthyOpt(result.https_proxy)
             \/ TruthyOpt(result.no_proxy)

\* C15: a Linux resolver returns not_checked False only with at least one
\* meaningful value; when its last strategy gave no usable value
\* (`netstat -rn` without a default row, a readable /etc/resolv.conf without
\* nameserver, search or domain line, no proxy value in the environment nor
\* in /etc/environment) the result has not_checked True, an error and a
\* remediation.
C15_NotCheckedUnlessValue ==
    (fn \in {"get_linux_default_route", "get_linux_dns_config", "get_linux_proxy_config"}
         /\ Returned /\ ~SomeValueExtracted)
        => /\ result.not_checked
           /\ result.error # Nothing
           /\ result.remediation # None

\* C16: within one invocation of get_linux_default_route the commands run
\* are a prefix of ip route show default, route -n, netstat -rn: each at most
\* once, in that order; a command is run only after the one before it failed
\* (non-zero exit or empty stdout), and once a command has succeeded the
\* invocation has ended without another command.
C16_CommandsArePrefix ==
    InLinuxRoute =>
        /\ Len(calls) <= 3
        /\ [i \in DOMAIN calls |-> calls[i].cmd]
               = SubSeq(<<CMD_IP, CMD_ROUTE, CMD_NETSTAT>>, 1, Len(calls))
        /\ \A i \in DOMAIN calls : i < Len(calls) => FailedProbe(i)
        /\ \A i \in DOMAIN calls :
               (Exited(i) /\ ~FailedProbe(i)) => (i = Len(calls) /\ pc = "done")

\* C16 witness: ip failed, `route -n` succeeded, and the invocation ended
\* after these two commands
C16_Witness ==
    /\ InLinuxRoute /\ Returned
    /\ Len(calls) = 2
    /\ FailedProbe(1) /\ Exited(2) /\ ~FailedProbe(2)

RECURSIVE Flatten(_)
Flatten(ss) == IF ss = <<>> THEN <<>> ELSE Head(ss) \o Flatten(Tail(ss))

\* what the lines that start with one of `keys` list after the key, line
\* after line, repetitions kept
ListedAfter(lines, keys) ==
    Flatten([k \in DOMAIN lines |->
                IF \E key \in keys : StartsWith(lines[k], key)
                THEN AfterKey(lines[k], CHOOSE key \in keys : StartsWith(lines[k], key))
                ELSE <<>>])

\* what the lines of a resolv.conf whose first word starts with one of
\* `words` list: their second word, or all their words but the first
ListedInConf(lines, words, all) ==
    Flatten([k \in DOMAIN lines |->
                IF /\ Len(lines[k]) >= 2
                   /\ ~HasPrefix(lines[k][1], "#")
                   /\ \E w \in words : HasPrefix(lines[k][1], w)
                THEN IF all THEN Tail(lines[k]) ELSE <<lines[k][2]>>
                ELSE <<>>])

\* the values of the scutil lines `<words> : value`, the value being the
\* rest of the line
ListedByScutil(lines, words) ==
    Flatten([k \in DOMAIN lines |->
                IF /\ Len(lines[k]) > Len(words) + 1
                   /\ SubSeq(lines[k], 1, Len(words) - 1) = SubSeq(words, 1, Len(words) - 1)
                   /\ HasPrefix(lines[k][Len(words)], words[Len(words)])
                   /\ lines[k][Len(words) + 1] = ":"
                THEN <<SubSeq(lines[k], Len(words) + 2, Len(lines[k]))>>
                ELSE <<>>])

\* `list` holds each element of `listed` once, ordered by first occurrence
FirstSeenOrder(list, listed) ==
    /\ \A i, j \in DOMAIN list : i # j => list[i] # list[j]
    /\ Range(list) = Range(listed)
    /\ \A i, j \in DOMAIN list : i < j => Index(listed, list[i]) < Index(listed, list[j])

\* C17: for the three DNS sources (`resolvectl status`, /etc/resolv.conf,
\* `scutil --dns`) the nameservers and search_domains returned hold no
\* element twice and are ordered by first occurrence in the input, also when
\* a token repeats across several matched lines.
C17_DnsListsFirstSeenOrder ==
    /\ (InLinuxDns /\ Returned /\ result.source = "resolvectl") =>
           LET lines == SplitLines(calls[1].ret.stdout)
           IN  /\ FirstSeenOrder(result.nameservers, ListedAfter(lines, {KEY_DNS_SERVERS}))
               /\ FirstSeenOrder(result.search_domains,
                      ListedAfter(lines, {KEY_DNS_DOMAIN, KEY_DOMAINS, KEY_SEARCH_DOMAINS}))
    /\ (InLinuxDns /\ Returned /\ result.source = "resolv.conf") =>
           LET lines == SplitLines(lv.read.text)
           IN  /\ FirstSeenOrder(result.nameservers,
                                 ListedInConf(lines, {"nameserver"}, FALSE))
               /\ FirstSeenOrder(result.search_domains,
                      Flatten([k \in DOMAIN lines |->
                                  ListedInConf(<<lines[k]>>, {"search"}, TRUE)
                                      \o ListedInConf(<<lines[k]>>, {"domain"}, FALSE)]))
    /\ (fn = "get_mac_dns_config" /\ Returned /\ ~result.not_checked) =>
           LET lines == SplitLines(calls[1].ret.stdout)
           IN  /\ FirstSeenOrder(result.nameservers,
                                 ListedByScutil(lines, <<"nameserver[">>))
               /\ FirstSeenOrder(result.search_domains,
                                 ListedByScutil(lines, <<"search", "domain[">>))

\* C17 witness: resolvectl listed two name servers on two lines, each of
\* them twice, and the result holds the two
C17_Witness ==
    /\ InLinuxDns /\ Returned /\ result.source = "resolvectl"
    /\ Len(result.nameservers) = 2
    /\ Len(ListedAfter(SplitLines(calls[1].ret.stdout), {KEY_DNS_SERVERS})) = 4
    /\ Len(SplitLines(calls[1].ret.stdout)) = 2

\* /etc/resolv.conf was opened in this invocation
ResolvConfWasRead == "read" \in DOMAIN lv

\* C18: get_linux_dns_config reads /etc/resolv.conf only when `resolvectl
\* status` failed (non-zero exit or empty stdout); an error of that read is
\* not propagated but returned as not_checked True with source None, empty
\* lists, a non-empty error and an evidence that still holds the resolvectl
\* attempt; source is "resolvectl" exactly when resolvectl satisfied the
\* query and "resolv.conf" exactly when the file did.
C18_ResolvConfFallback ==
    InLinuxDns =>
        /\ ResolvConfWasRead => FailedProbe(1)
        /\ (ResolvConfWasRead /\ lv.read.kind = "raise") =>
               /\ Returned /\ raised = None
               /\ result.not_checked
               /\ result.source = None
               /\ result.nameservers = <<>> /\ result.search_domains = <<>>
               /\ TruthyOpt(result.error)
               /\ "resolvectl" \in DOMAIN result.evidence
               /\ result.evidence.resolvectl = EvidenceOf(1)
        /\ Returned =>
               /\ result.source = "resolvectl" <=> (Exited(1) /\ ~FailedProbe(1))
               /\ result.source = "resolv.conf" <=>
                      (FailedProbe(1) /\ ResolvConfWasRead /\ lv.read.kind = "read")

\* C18 witness: resolvectl exited non-zero, the read of /etc/resolv.conf
\* raised, and the result returned holds the record of the resolvectl attempt
C18_Witness ==
    /\ InLinuxDns /\ Returned
    /\ calls[1].ret.rc # 0
    /\ ResolvConfWasRead /\ lv.read.kind = "raise"
    /\ result.evidence.resolvectl = EvidenceOf(1)

InLinuxProxy == fn = "get_linux_proxy_config"

\* the variable the environment lookup of a key takes: the upper-case one
\* when it is set to a non-empty string, else the lower-case one
TakenFromEnv(keys) ==
    IF TruthyOpt(lv.environ[keys[1]]) THEN lv.environ[keys[1]] ELSE lv.environ[keys[2]]

\* the key was found in the process environment: the variable taken is set,
\* and its value is not empty or blank
FoundInEnv(keys) == TruthyOpt(TakenFromEnv(keys)) /\ Strip(TakenFromEnv(keys)[1]) # <<>>

\* the value the result holds for a key
ProxyValueOf(keys) ==
    CASE keys = HTTP_KEYS -> result.http_proxy
      [] keys = HTTPS_KEYS -> result.https_proxy
      [] keys = NO_KEYS -> result.no_proxy

\* the key was not found in the environment and the result holds a value for it
FilledFromFile(keys) == ~FoundInEnv(keys) /\ TruthyOpt(ProxyValueOf(keys))

\* C19: the sources get_linux_proxy_config returns hold "env" exactly when
\* http_proxy, https_proxy or no_proxy was found in the process environment,
\* and "etc_environment" exactly when a value was filled from
\* /etc/environment; with only HTTP_PROXY=http://p:8080 set and no
\* /etc/environment, sources is ["env"] and https_proxy is None.
C19_SourcesTellWhereFrom ==
    (InLinuxProxy /\ Returned) =>
        /\ Contains(result.sources, "env")
               <=> \E keys \in {HTTP_KEYS, HTTPS_KEYS, NO_KEYS} : FoundInEnv(keys)
        /\ Contains(result.sources, "etc_environment")
               <=> \E keys \in {HTTP_KEYS, HTTPS_KEYS, NO_KEYS} : FilledFromFile(keys)
        /\ (/\ lv.environ = [name \in ENV_NAMES |->
                                 IF name = "HTTP_PROXY" THEN Some(P_URL) ELSE Nothing]
            /\ lv.read.kind = "raise")
               => (result.sources = <<"env">> /\ result.https_proxy = Nothing)

\* C19 witness: http_proxy was found in the environment, https_proxy was
\* not and was filled from /etc/environment, and sources names both
C19_Witness ==
    /\ InLinuxProxy /\ Returned
    /\ FoundInEnv(HTTP_KEYS) /\ FilledFromFile(HTTPS_KEYS)
    /\ result.sources = <<"env", "etc_environment">>

\* a line of /etc/environment that gives the key a value: not a comment, with
\* a "=", the name before it being one of the key's names
GivesKey(line, keys) ==
    /\ Strip(line) # <<>> /\ ~HasPrefix(Strip(line)[1], "#") /\ Contains(Strip(line), "=")
    /\ ProxyKey(Strip(line)) \in {<<keys[1]>>, <<keys[2]>>}

\* the lines read from /etc/environment (none when it could not be read)
EtcEnvironmentRead ==
    IF lv.read.kind = "read" THEN SplitLines(lv.read.text) ELSE <<>>

\* the line of /etc/environment that is the first to give the key a non-empty value
IsFirstNonEmpty(n, keys) ==
    LET lines == EtcEnvironmentRead
    IN  /\ n \in DOMAIN lines
        /\ GivesKey(lines[n], keys) /\ ProxyValue(Strip(lines[n])) # <<>>
        /\ \A m \in 1..(n - 1) :
               ~(GivesKey(lines[m], keys) /\ ProxyValue(Strip(lines[m])) # <<>>)

\* C20: get_linux_proxy_config never lets /etc/environment overwrite a value
\* found in the process environment, whatever the file holds and in whatever
\* order; the file gives a value only to a key still missing after the
\* environment lookup, and of several lines of the file for one key the first
\* with a non-empty value is kept.
C20_EnvNeverOverwritten ==
    (InLinuxProxy /\ Returned) =>
        \A keys \in {HTTP_KEYS, HTTPS_KEYS, NO_KEYS} :
            /\ FoundInEnv(keys) => ProxyValueOf(keys) = Some(Strip(TakenFromEnv(keys)[1]))
            /\ ~FoundInEnv(keys) =>
                   /\ \A n \in DOMAIN EtcEnvironmentRead :
                          IsFirstNonEmpty(n, keys)
                              => ProxyValueOf(keys) = Some(ProxyValue(Strip(EtcEnvironmentRead[n])))
                   /\ (\A n \in DOMAIN EtcEnvironmentRead : ~IsFirstNonEmpty(n, keys))
                          => ~TruthyOpt(ProxyValueOf(keys))

\* C20 witness: HTTP_PROXY was found in the environment, /etc/environment
\* gives http_proxy another value, and the result holds the value of the
\* environment
C20_Witness ==
    /\ InLinuxProxy /\ Returned
    /\ FoundInEnv(HTTP_KEYS)
    /\ \E n \in DOMAIN EtcEnvironmentRead :
           /\ IsFirstNonEmpty(n, HTTP_KEYS)
           /\ Some(ProxyValue(Strip(EtcEnvironmentRead[n]))) # result.http_proxy
    /\ result.http_proxy = Some(P_URL)

\* no element occurs twice in the list
NoDuplicates(list) == \A i, j \in 1..Len(list) : list[i] = list[j] => i = j

\* the list-valued fields of the result of the function invoked
ListFields ==
    CASE fn = "get_linux_dns_config" -> <<result.nameservers, result.search_domains>>
      [] fn = "get_linux_proxy_config" -> <<result.sources>>
      [] fn = "get_mac_dns_config" -> <<result.nameservers, result.search_domains>>
      [] fn = "get_mac_proxy_config" -> <<result.exceptions>>
      [] OTHER -> <<>>

\* C21: every list-valued field of a resolver result is free of duplicates;
\* in particular "etc_environment" appears at most once in the sources of
\* get_linux_proxy_config, whatever /etc/environment holds and in whatever
\* order its lines are.
C21_ListsHaveNoDuplicates ==
    (IsFactResolver /\ Returned) =>
        \A i \in 1..Len(ListFields) : NoDuplicates(ListFields[i])

\* the function invoked is one of the macOS resolvers with a single source
InMacResolver ==
    fn \in {"get_mac_default_route", "get_mac_dns_config", "get_mac_proxy_config"}

\* the one command of the resolver could not be run, or exited non-zero
SourceAbsentOrFailed ==
    /\ InMacResolver /\ pc = "done" /\ Len(calls) = 1
    /\ ~(Exited(1) /\ calls[1].ret.rc = 0)

\* C22: a macOS resolver whose single source is absent or fails returns a
\* not_checked result that has every fact field (null or empty), a non-empty
\* error, a remediation and the evidence of the one attempt; the invocation
\* never ends in an unhandled failure.
C22_MacSourceFailureIsNotChecked ==
    SourceAbsentOrFailed =>
        /\ raised = None
        /\ result.returned
        /\ result.not_checked
        /\ TypedValuesEmpty
        /\ result.error # Nothing /\ result.error[1] # <<>>
        /\ result.remediation # None
        /\ result.evidence.rc = calls[1].ret.rc
        /\ result.evidence.stdout = calls[1].ret.stdout
        /\ result.evidence.stderr = calls[1].ret.stderr

\* sub is a run of consecutive tokens of t
IsInfix(sub, t) ==
    \E k \in 0..(Len(t) - Len(sub)) : SubSeq(t, k + 1, k + Len(sub)) = sub

\* what the i-th command printed when it failed: its stderr, or its stdout
\* when stderr is empty
FailureOutput(i) == Or(calls[i].ret.stderr, calls[i].ret.stdout)

\* get_linux_default_route ran its three commands and returned not_checked
RouteExhausted ==
    /\ InLinuxRoute /\ Returned /\ result.not_checked
    /\ Len(calls) = 3

\* C23: when the three strategies of get_linux_default_route are exhausted,
\* the error of the not_checked result combines all attempts: the failure
\* output of each command that printed any is in it, not only that of the
\* first command with output.
C23_ErrorAggregatesAttempts ==
    RouteExhausted =>
        \A i \in 1..3 :
            FailureOutput(i) # <<>> => IsInfix(FailureOutput(i), result.error[1])

InWriteReport == fn = "write_json_report"

\* the report can be serialised in full, and this is its document
NewDocument == FileWith(lv.report.doc)
Serialisable == lv.report.dataclass /\ lv.report.bad = 0

\* C24: write_json_report writes the report atomically: at every point of
\* the call, a failure or an interruption part-way included, the path holds
\* what it held before the call (or no file) or the complete new document,
\* never a truncated or partial one; when the call returns, the parent
\* directory exists and the path holds the complete document.
C24_ReportWrittenAtomically ==
    InWriteReport =>
        /\ fs.file = lv.before \/ (Serialisable /\ fs.file = NewDocument)
        /\ Returned => (fs.parent = "dir" /\ fs.file = NewDocument)

\* the token that follows the first `keyword` of the line; None when the line
\* has no such keyword or ends with it
ValueAfter(line, keyword) ==
    LET first == {i \in DOMAIN line : line[i] = keyword
                                      /\ \A j \in 1..(i - 1) : line[j] # keyword}
    IN  IF \E i \in first : i < Len(line)
        THEN line[(CHOOSE i \in first : TRUE) + 1]
        ELSE None

\* the line gives a gateway or an interface
Yields(line) == ValueAfter(line, "via") # None \/ ValueAfter(line, "dev") # None

\* the lines of what `ip route show default` printed
IpLines == SplitLines(calls[1].ret.stdout)

\* C25: get_linux_default_route takes the gateway and the interface of an
\* `ip route show default` output of several lines from one line, the first
\* that gives either: each is the token after the first `via` / `dev` of that
\* line, or None when the keyword is missing or is the last token of the
\* line; later lines never contribute, and no line makes the parse fail.
C25_IpValuesFromFirstYieldingLine ==
    IpAnswered =>
        IF \E k \in DOMAIN IpLines : Yields(IpLines[k])
        THEN LET k == CHOOSE n \in DOMAIN IpLines :
                          Yields(IpLines[n]) /\ \A j \in 1..(n - 1) : ~Yields(IpLines[j])
             IN  /\ result.gateway = ValueAfter(IpLines[k], "via")
                 /\ result.interface = ValueAfter(IpLines[k], "dev")
        ELSE result.gateway = None /\ result.interface = None

\* C25 witness: the first line has `dev eth0` and ends with `via`, the second
\* line has a `via` with a value: the interface is returned without a gateway
C25_Witness ==
    /\ IpAnswered
    /\ Len(IpLines) = 2
    /\ ValueAfter(IpLines[1], "dev") = "eth0"
    /\ IpLines[1][Len(IpLines[1])] = "via"
    /\ ValueAfter(IpLines[2], "via") # None
    /\ result.gateway = None /\ result.interface = "eth0"

\* `route -n` / `netstat -rn` exited 0 with some output after the commands
\* before it had failed, and the function returned
RouteAnswered ==
    /\ InLinuxRoute /\ Returned /\ Len(calls) = 2
    /\ Exited(2) /\ calls[2].ret.rc = 0 /\ calls[2].ret.stdout # <<>>
NetstatAnswered ==
    /\ InLinuxRoute /\ Returned /\ Len(calls) = 3
    /\ Exited(3) /\ calls[3].ret.rc = 0 /\ calls[3].ret.stdout # <<>>

\* the rows of the table the i-th command printed
RowsOf(i) == SplitLines(calls[i].ret.stdout)

\* the destination column of the row says default
RouteDestinationMatches(row) == row # <<>> /\ row[1] \in {"0.0.0.0", "default"}
NetstatDestinationMatches(row) == row # <<>> /\ LowerTok(row[1]) = "default"

\* the second column of the row (None if it has none) and its last column
SecondColumn(row) == IF Len(row) >= 2 THEN row[2] ELSE None
LastColumn(row) == row[Len(row)]

\* the result has the gateway and the interface of the first of the rows
\* that is in `matching`, and None for both when no row is
TakenFromFirstRow(rows, matching) ==
    IF matching = {}
    THEN result.gateway = None /\ result.interface = None
    ELSE LET k == CHOOSE n \in matching : \A j \in matching : n <= j
         IN  /\ result.gateway = SecondColumn(rows[k])
             /\ result.interface = LastColumn(rows[k])

\* C26 as stated: the fallback parsers of get_linux_default_route take the
\* first row of `route -n` whose destination column is 0.0.0.0 or the literal
\* default, and the first row of `netstat -rn` whose first column is default
\* in any case; the gateway is the second column of that row, the interface
\* its last, and a row with such a destination is matched whatever its number
\* of columns.
C26_DefaultRowAnyWidth ==
    /\ RouteAnswered =>
           TakenFromFirstRow(RowsOf(2),
               {n \in DOMAIN RowsOf(2) : RouteDestinationMatches(RowsOf(2)[n])})
    /\ NetstatAnswered =>
           TakenFromFirstRow(RowsOf(3),
               {n \in DOMAIN RowsOf(3) : NetstatDestinationMatches(RowsOf(3)[n])})

\* C26 amended: as stated, except that only a row of at least 8 columns
\* (`route -n`) or at least 3 columns (`netstat -rn`) is matched, a shorter
\* row with such a destination being passed over, and that `default` is
\* compared case-insensitively in the `route -n` table too.
C26_DefaultRowWideEnough ==
    /\ RouteAnswered =>
           TakenFromFirstRow(RowsOf(2),
               {n \in DOMAIN RowsOf(2) :
                    /\ Len(RowsOf(2)[n]) >= 8
                    /\ (RowsOf(2)[n][1] = "0.0.0.0" \/ LowerTok(RowsOf(2)[n][1]) = "default")})
    /\ NetstatAnswered =>
           TakenFromFirstRow(RowsOf(3),
               {n \in DOMAIN RowsOf(3) :
                    /\ Len(RowsOf(3)[n]) >= 3
                    /\ NetstatDestinationMatches(RowsOf(3)[n])})

\* C26 witness: `route -n` printed a default row of three columns and then one
\* of eight or more, and the gateway and the interface of the second were returned
C26_Witness ==
    /\ RouteAnswered
    /\ Len(RowsOf(2)) = 2
    /\ RouteDestinationMatches(RowsOf(2)[1]) /\ Len(RowsOf(2)[1]) = 3
    /\ RouteDestinationMatches(RowsOf(2)[2]) /\ Len(RowsOf(2)[2]) >= 8
    /\ result.gateway = "10.9.9.9" /\ result.interface = "tun0"

\* the stealth-mode probe failed, or said neither enabled nor disabled
StealthUnknown ==
    \/ calls[2].ret.rc # 0
    \/ /\ ~Contains(Lower(calls[2].ret.stdout), "enabled")
       /\ ~Contains(Lower(calls[2].ret.stdout), "disabled")

\* what the check would have returned had `--getblockall` ended as proc
WithBlockAll(proc) ==
    LET r == mac_run_cmd(CMD_BLOCKALL, proc)
    IN  FirewallChecked(lv.p1, lv.p2, Probe(r.rc, r.stdout, r.stderr))

\* C27: check_mac_firewall_status launches the stealth-mode and block-all
\* probes only after the global-state probe exited 0; when that probe exits
\* non-zero no other command runs and evidence has the getglobalstate record
\* only.  The two probes never lead to NOT_CHECKED or FAIL: FAIL comes from
\* the global state alone, an enabled firewall whose stealth probe failed or
\* could not be interpreted stays at PASS, and status, score_factor and
\* findings are the same whatever the block-all probe gives.
C27_AuxiliaryProbesOnlyInform ==
    InFirewall =>
        /\ Len(calls) >= 2 => (Exited(1) /\ calls[1].ret.rc = 0)
        /\ (Returned /\ calls[1].ret.rc # 0) =>
               /\ Len(calls) = 1
               /\ DOMAIN result.evidence = {"tool", "notes", "getglobalstate"}
        /\ GlobalStateAnswered =>
               /\ Len(calls) = 3
               /\ result.status # "NOT_CHECKED"
               /\ result.status = "FAIL" =>
                      /\ Contains(calls[1].ret.stdout, "State = 0")
                      /\ ~Contains(calls[1].ret.stdout, "State = 1")
               /\ (Contains(calls[1].ret.stdout, "State = 1") /\ StealthUnknown) =>
                      /\ result.status = "PASS"
                      /\ result.score_factor = 10
                      /\ result.findings = <<>>
               /\ \A proc \in BlockAllProcs :
                      proc.kind = "exit" =>
                          /\ WithBlockAll(proc).status = result.status
                          /\ WithBlockAll(proc).score_factor = result.score_factor
                          /\ WithBlockAll(proc).findings = result.findings

\* C27 witness: the firewall is on, the stealth-mode probe failed, block-all
\* is reported enabled, and the result is PASS
C27_Witness ==
    /\ GlobalStateAnswered
    /\ Contains(calls[1].ret.stdout, "State = 1")
    /\ calls[2].ret.rc # 0
    /\ calls[3].ret.rc = 0 /\ calls[3].ret.stdout = <<"enabled">>
    /\ result.status = "PASS" /\ result.findings = <<>>

============================================================================
